---- MODULE Spec2Model ----
(***************************************************************************)
(* Model of the directory reconciliation core of bms-resource-toolbox:     *)
(* the tree merge engine (fs/moving.ts: moveElementsAcrossDir,             *)
(* processDirectory, moveFile, moveFileRename), the helpers it uses        *)
(* (fs/path.ts, fs/compare.ts, fs/hash.ts) and the rename-by-metadata      *)
(* commands that call it (work.ts: setNameByBms, setNameByBmsOptimized).   *)
(*                                                                         *)
(* A file name is a sequence of one-character strings, a path a sequence   *)
(* of names, and the filesystem a function from the existing paths to      *)
(* their nodes.                                                            *)
(***************************************************************************)
EXTENDS Integers, Sequences, FiniteSets, TLC

VARIABLES
    fs,        \* the filesystem: existing path -> node
    fs0,       \* the filesystem when the command started
    denied,    \* paths on which the OS refuses rename and remove
    cmd,       \* the command being run and its arguments
    cpc,       \* position of the calling command (setNameByBms...)
    call,      \* arguments of the running moveElementsAcrossDir call
    pc,        \* position of moveElementsAcrossDir / processDirectory
    queue,     \* the worklist of (from, to) pairs
    cur,       \* the pair taken from the worklist
    subdirs,   \* processDirectory's result: the same-name sub-directory pairs
    later,     \* file operations of the stages of processDirectory not yet started
    tasks,     \* the file/directory operations started together by Promise.all
    outcome,   \* how moveElementsAcrossDir ended: "running", "returned", "raised"
    error,     \* the message of the raised error
    result,    \* how the command ended: "running", "returned", "raised"
    log,       \* what the run did: renames, removals, evaluated decisions
    sync,      \* the syncFolder run: its arguments, its recursion, its pass
    pool       \* a ConcurrencyPool and the add() calls made on it

vars == <<fs, fs0, denied, cmd, cpc, call, pc, queue, cur, subdirs, later, tasks,
          outcome, error, result, log, sync, pool>>

----------------------------------------------------------------------------
(* Sequences of characters                                                 *)

Upper == <<"A","B","C","D","E","F","G","H","I","J","K","L","M",
           "N","O","P","Q","R","S","T","U","V","W","X","Y","Z">>
Lower == <<"a","b","c","d","e","f","g","h","i","j","k","l","m",
           "n","o","p","q","r","s","t","u","v","w","x","y","z">>

\* String.prototype.toLowerCase on one character
LowerChar(c) ==
    IF \E i \in 1..26 : Upper[i] = c
    THEN Lower[CHOOSE i \in 1..26 : Upper[i] = c]
    ELSE c

toLowerCase(s) == [i \in 1..Len(s) |-> LowerChar(s[i])]

\* String.prototype.lastIndexOf(ch), 1-based; 0 when ch does not occur (JS: -1)
lastIndexOf(s, ch) ==
    IF \E i \in 1..Len(s) : s[i] = ch
    THEN CHOOSE i \in 1..Len(s) : s[i] = ch /\ \A j \in (i+1)..Len(s) : s[j] # ch
    ELSE 0

\* the last element of String.prototype.split(ch): what follows the last ch
LastPart(s, ch) == SubSeq(s, lastIndexOf(s, ch) + 1, Len(s))

\* the number of parts of String.prototype.split(ch)
PartCount(s, ch) == Cardinality({i \in 1..Len(s) : s[i] = ch}) + 1

RECURSIVE Digits(_)
\* `${count}`: the decimal digits of a positive integer
Digits(n) ==
    LET d == <<"0","1","2","3","4","5","6","7","8","9">>[(n % 10) + 1]
    IN  IF n < 10 THEN <<d>> ELSE Digits(n \div 10) \o <<d>>

RECURSIVE PathString(_)
\* a path as the string the code handles: its names joined by "/"
PathString(p) ==
    IF Len(p) = 0 THEN <<>>
    ELSE IF Len(p) = 1 THEN p[1]
    ELSE PathString(SubSeq(p, 1, Len(p) - 1)) \o <<"/">> \o p[Len(p)]

\* fs/path.ts getFileExtension: '' when there is no dot, else the lower-cased
\* text after the last dot
getFileExtension(filePath) ==
    IF PartCount(filePath, ".") < 2 THEN <<>>
    ELSE toLowerCase(LastPart(filePath, "."))

\* fs/path.ts getFileStem: the file name up to its last dot
getFileStem(filePath) ==
    LET fileName == LastPart(filePath, "/")
        lastDotIndex == lastIndexOf(fileName, ".")
    IN  IF lastDotIndex = 0 THEN fileName
        ELSE SubSeq(fileName, 1, lastDotIndex - 1)

----------------------------------------------------------------------------
(* The filesystem (@tauri-apps/plugin-fs as the code uses it)               *)

\* a node: its type, its contents and its modification time
DirNode == [dir |-> TRUE, data |-> 0, mtime |-> 0]
FileNodeAt(d, m) == [dir |-> FALSE, data |-> d, mtime |-> m]
FileNode(d) == FileNodeAt(d, 0)

Parent(p) == SubSeq(p, 1, Len(p) - 1)
Child(p, name) == Append(p, name)
BaseName(p) == p[Len(p)]
IsPrefix(p, q) == Len(p) <= Len(q) /\ SubSeq(q, 1, Len(p)) = p

\* exists(path)
exists(f, p) == p \in DOMAIN f
\* stat(path).isDirectory / .isFile, for an existing path
isDirectory(f, p) == p \in DOMAIN f /\ f[p].dir
isFile(f, p) == p \in DOMAIN f /\ ~f[p].dir

\* the paths at or below p
Under(f, p) == {q \in DOMAIN f : IsPrefix(p, q)}
\* the files at or below p
FilesUnder(f, p) == {q \in Under(f, p) : ~f[q].dir}

\* readDir(dir): the names of the entries of an existing directory
readDir(f, p) == {BaseName(q) : q \in {r \in DOMAIN f : Len(r) = Len(p) + 1 /\ Parent(r) = p}}

\* rename(src, dst) is refused by the OS: src is missing or locked, the parent
\* of dst is no directory, a directory would replace a file or a non-empty
\* directory, a file would replace a directory, or dst lies inside src
renameFails(f, dn, src, dst) ==
    \/ src \notin DOMAIN f
    \/ src \in dn
    \/ Len(dst) > 1 /\ ~isDirectory(f, Parent(dst))
    \/ dst \in DOMAIN f /\ src # dst /\
         \/ f[src].dir # f[dst].dir
         \/ f[dst].dir /\ Under(f, dst) # {dst}
    \/ src # dst /\ IsPrefix(src, dst)

\* the filesystem after a successful rename(src, dst): the tree at src is now
\* at dst, replacing what was there
renameFs(f, src, dst) ==
    LET moved == Under(f, src)
        kept == DOMAIN f \ (moved \cup Under(f, dst))
        to(q) == dst \o SubSeq(q, Len(src) + 1, Len(q))
        from(q) == src \o SubSeq(q, Len(dst) + 1, Len(q))
    IN  IF src = dst THEN f
        ELSE [q \in kept \cup {to(r) : r \in moved} |->
                 IF q \in kept THEN f[q] ELSE f[from(q)]]

\* remove(path, {recursive}) is refused: the path is missing, it or something
\* below it is locked, or it is a non-empty directory and recursive is off
removeFails(f, dn, p, recursive) ==
    \/ p \notin DOMAIN f
    \/ Under(f, p) \cap dn # {}
    \/ ~recursive /\ Under(f, p) # {p}

\* a remove that reports success and deletes nothing
removeFs_nothing(f, p) == f

\* the filesystem after a successful remove
removeFs(f, p) == [q \in DOMAIN f \ Under(f, p) |-> f[q]]

----------------------------------------------------------------------------
(* fs/hash.ts and fs/compare.ts                                            *)

\* file contents are numbered 1, 2, ...; contents 2k-1 and 2k have k bytes
fileSize(d) == (d + 1) \div 2

\* calculateFileHash: the SHA-512 digest of the bytes, one digest per content
calculateFileHash(f, p) == <<"sha512", f[p].data>>

\* a comparison whose digests never compare equal
isFileSameContent_neverEqual(f, file1, file2) == FALSE

\* isFileSameContent: sizes first, then the digests; any error (a missing
\* path, a directory that cannot be read as a file) gives false
isFileSameContent(f, file1, file2) ==
    IF ~exists(f, file1) \/ ~exists(f, file2) THEN FALSE
    ELSE IF fileSize(f[file1].data) # fileSize(f[file2].data) THEN FALSE
    ELSE IF f[file1].dir \/ f[file2].dir THEN FALSE
    ELSE calculateFileHash(f, file1) = calculateFileHash(f, file2)

\* isDirHavingFile: does the directory hold a non-directory entry directly;
\* false when it cannot be read
isDirHavingFile(f, dirPath) ==
    IF ~isDirectory(f, dirPath) THEN FALSE
    ELSE \E name \in readDir(f, dirPath) : ~f[Child(dirPath, name)].dir

----------------------------------------------------------------------------
(* fs/moving.ts: the conflict policy                                       *)

Skip == "Skip"
Replace == "Replace"
Rename == "Rename"
CheckReplace == "CheckReplace"
ReplaceAction == {Skip, Replace, Rename, CheckReplace}

txt == <<"t","x","t">>
bms == <<"b","m","s">>
bme == <<"b","m","e">>
bml == <<"b","m","l">>
pms == <<"p","m","s">>
bmson == <<"b","m","s","o","n">>
wav == <<"w","a","v">>

\* ReplaceOptions with an empty extension table
OptionsDefault(action) == [ext |-> <<>>, default |-> action]
\* ReplaceOptions with one extension entry; ext is a sequence of <<ext, action>>
OptionsExt(e, action, default) == [ext |-> <<<<e, action>>>>, default |-> default]

replaceOptionsUpdatePack ==
    [ext |-> << <<bms, CheckReplace>>, <<bme, CheckReplace>>, <<bml, CheckReplace>>,
                <<pms, CheckReplace>>, <<bmson, CheckReplace>>, <<txt, CheckReplace>> >>,
     default |-> Replace]

replaceOptionsFromPreset(preset) ==
    IF preset = "Default" THEN OptionsDefault(Replace)
    ELSE replaceOptionsUpdatePack

\* getActionForPath: options.ext[ext] ?? options.default, ext taken from the
\* whole path string
getActionForPath(options, filePath) ==
    LET e == getFileExtension(PathString(filePath))
        hit == {i \in 1..Len(options.ext) : options.ext[i][1] = e}
    IN  IF hit = {} THEN options.default
        ELSE options.ext[CHOOSE i \in hit : TRUE][2]

----------------------------------------------------------------------------
(* fs/moving.ts: the file operations started by processDirectory           *)

\* the attempt cap of moveFileRename
RenameCap == 1000

\* moveFileRename's candidate: the source name itself for count 1, then
\* stem.count.ext, in the directory of dst
newName(src, count) ==
    LET srcFileName == LastPart(PathString(src), "/")
        stem == getFileStem(srcFileName)
        ext == getFileExtension(srcFileName)
    IN  IF count = 1 THEN stem \o <<".">> \o ext
        ELSE stem \o <<".">> \o Digits(count) \o <<".">> \o ext

Candidate(src, dstDir, count) == Child(Parent(dstDir), newName(src, count))

\* a started operation: where it is (at) and moveFileRename's counter
Task(src, dst, at) == [src |-> src, dst |-> dst, at |-> at, count |-> 1]

\* a moveFile that renames onto the destination whatever the action
moveFileStart_overwrites(options, src) == "rename"

\* moveFile up to its first filesystem request
moveFileStart(options, src) ==
    LET action == getActionForPath(options, src)
    IN  CASE action = Replace -> "rename"
          [] action = Skip -> "mfSkipExists"
          [] action = Rename -> "mfrExists"
          [] OTHER -> "crExists"

\* One operation advances by one filesystem request.  The result says what
\* the filesystem is afterwards, where the operation continues ("done" when it
\* has finished, "throw" when it rejects) and what was done.
StepResult(f, at, count, ev) == [fs |-> f, at |-> at, count |-> count, ev |-> ev]

\* lines 311-327: the candidate of this attempt is taken by other content
candidateTaken(f, src, dst, count) ==
    /\ count <= RenameCap
    /\ exists(f, Candidate(src, dst, count))
    /\ ~isFileSameContent(f, src, Candidate(src, dst, count))

\* moveFileRename's loop over candidates that are taken by a file of other
\* contents, from count on: the count of the first iteration that ends the
\* loop (a free name, an identical file, or the cap); a run of taken
\* candidates is passed in one stride
RECURSIVE skipOccupied(_, _, _, _)
skipOccupied(f, src, dst, count) ==
    IF candidateTaken(f, src, dst, count)
    THEN IF \A n \in count .. count + 31 : candidateTaken(f, src, dst, n)
         THEN skipOccupied(f, src, dst, count + 32)
         ELSE skipOccupied(f, src, dst, count + 1)
    ELSE count

\* a loop that never gives up
capExceeded_never(count) == FALSE

\* line 329: the attempts are used up
capExceeded(count) == count > RenameCap

\* alone: no other operation is in flight, so the iterations over occupied
\* candidates cannot interleave with anything and are taken in one step
TaskStep(f, dn, options, t, alone) ==
    LET cand == Candidate(t.src, t.dst, t.count)
    IN  CASE t.at = "dirRename" ->
               \* Stage 2a: rename(src, dst), a failure is caught and logged
               IF renameFails(f, dn, t.src, t.dst)
               THEN StepResult(f, "done", t.count, {<<"renameFailed", t.src, t.dst>>})
               ELSE StepResult(renameFs(f, t.src, t.dst), "done", t.count,
                               {<<"rename", t.src, t.dst>>})
          [] t.at = "skipExists" ->
               \* Stage 2b: exists(dst), then moveFile
               IF exists(f, t.dst)
               THEN StepResult(f, "done", t.count, {<<"skipped", t.src>>})
               ELSE StepResult(f, moveFileStart(options, t.src), t.count, {})
          [] t.at = "mfSkipExists" ->
               IF exists(f, t.dst)
               THEN StepResult(f, "done", t.count, {<<"skipped", t.src>>})
               ELSE StepResult(f, "rename", t.count, {})
          [] t.at = "rename" ->
               IF renameFails(f, dn, t.src, t.dst)
               THEN StepResult(f, "throw", t.count, {<<"renameFailed", t.src, t.dst>>})
               ELSE StepResult(renameFs(f, t.src, t.dst), "done", t.count,
                               {<<"rename", t.src, t.dst>>})
          [] t.at = "crExists" ->
               IF exists(f, t.dst)
               THEN StepResult(f, "crCompare", t.count, {})
               ELSE StepResult(f, "rename", t.count, {})
          [] t.at = "crCompare" ->
               IF isFileSameContent(f, t.src, t.dst)
               THEN StepResult(f, "rename", t.count, {<<"same", t.src, t.dst>>})
               ELSE StepResult(f, "mfrExists", t.count, {})
          [] t.at = "mfrExists" ->
               IF exists(f, cand)
               THEN StepResult(f, "mfrCompare", t.count, {})
               ELSE StepResult(f, "mfrRename", t.count, {})
          [] t.at = "mfrRename" ->
               IF renameFails(f, dn, t.src, cand)
               THEN StepResult(f, "throw", t.count, {<<"renameFailed", t.src, cand>>})
               ELSE StepResult(renameFs(f, t.src, cand), "done", t.count,
                               {<<"rename", t.src, cand>>})
          [] t.at = "mfrCompare" ->
               IF isFileSameContent(f, t.src, cand)
               THEN StepResult(f, "mfrRemove", t.count, {<<"same", t.src, cand>>})
               ELSE IF capExceeded(t.count)
               THEN StepResult(f, "throw", t.count, {<<"tooMany", t.src>>})
               ELSE StepResult(f, "mfrExists",
                               IF alone THEN skipOccupied(f, t.src, t.dst, t.count + 1)
                               ELSE t.count + 1, {})
          [] OTHER ->
               \* "mfrRemove": remove(src), the duplicate is discarded
               IF removeFails(f, dn, t.src, FALSE)
               THEN StepResult(f, "throw", t.count, {<<"removeFailed", t.src>>})
               ELSE StepResult(removeFs(f, t.src), "done", t.count,
                               {<<"remove", t.src>>})

----------------------------------------------------------------------------
(* fs/moving.ts: moveElementsAcrossDir and processDirectory                 *)

Pair(from, to) == [from |-> from, to |-> to]

\* the orders in which readDir may list a set of entries
Orders(S) == {sq \in [1..Cardinality(S) -> S] : \A x \in S : \E i \in DOMAIN sq : sq[i] = x}

NoOps == [skip |-> {}, rename |-> {}, replace |-> {}]

\* processDirectory's classification of the entries of fromDir
srcDirs(f, fromDir) == {n \in readDir(f, fromDir) : f[Child(fromDir, n)].dir}
srcFiles(f, fromDir) == {n \in readDir(f, fromDir) : ~f[Child(fromDir, n)].dir}
subdirBothExist(f, fromDir, toDir) ==
    {n \in srcDirs(f, fromDir) : isDirectory(f, Child(toDir, n))}
dirDirectMoves(f, fromDir, toDir) ==
    srcDirs(f, fromDir) \ subdirBothExist(f, fromDir, toDir)
fileOps(f, options, fromDir, actions) ==
    {n \in srcFiles(f, fromDir) : getActionForPath(options, Child(fromDir, n)) \in actions}

\* the entry checks without the comparison of the two paths
entryNoOp_noSamePathCheck(f, fromDir, toDir) ==
    ~exists(f, fromDir) \/ ~isDirectory(f, fromDir)

\* an entry without the rename of the whole tree
destMissing_never(f, toDir) == FALSE

\* an entry without the check of the destination's type
destNotDirectory_unchecked(f, toDir) == FALSE

\* lines 82-99: the call is a no-op when the source is missing, equals the
\* destination or is no directory
entryNoOp(f, fromDir, toDir) ==
    ~exists(f, fromDir) \/ fromDir = toDir \/ ~isDirectory(f, fromDir)

\* lines 101-104: the destination does not exist
destMissing(f, toDir) == ~exists(f, toDir)

\* lines 110-114: the destination exists and is no directory
destNotDirectory(f, toDir) == exists(f, toDir) /\ ~isDirectory(f, toDir)

\* the call starts: lines 82-117, up to the first pass of the loop
MoveEntry ==
    /\ pc = "entry"
    /\ LET fromDir == call.fromDir
           toDir == call.toDir
       IN  IF entryNoOp(fs, fromDir, toDir)
           THEN /\ outcome' = "returned"
                /\ pc' = "end"
                /\ UNCHANGED <<fs, queue, error, log>>
           ELSE IF destMissing(fs, toDir)
           THEN IF renameFails(fs, denied, fromDir, toDir)
                THEN /\ outcome' = "raised"
                     /\ error' = "rename"
                     /\ pc' = "end"
                     /\ log' = log \cup {<<"renameFailed", fromDir, toDir>>}
                     /\ UNCHANGED <<fs, queue>>
                ELSE /\ fs' = renameFs(fs, fromDir, toDir)
                     /\ outcome' = "returned"
                     /\ pc' = "end"
                     /\ log' = log \cup {<<"rename", fromDir, toDir>>}
                     /\ UNCHANGED <<queue, error>>
           ELSE IF destNotDirectory(fs, toDir)
           THEN /\ outcome' = "raised"
                /\ error' = "notDirectory"
                /\ pc' = "end"
                /\ UNCHANGED <<fs, queue, log>>
           ELSE /\ queue' = <<Pair(fromDir, toDir)>>
                /\ pc' = "loop"
                /\ UNCHANGED <<fs, outcome, error, log>>
    /\ UNCHANGED <<sync, fs0, denied, pool, cmd, cpc, result, call, cur, subdirs, later, tasks>>

\* the worklist is empty: the call returns
MoveReturn ==
    /\ pc = "loop"
    /\ queue = <<>>
    /\ outcome' = "returned"
    /\ pc' = "end"
    /\ UNCHANGED <<sync, fs, fs0, denied, pool, cmd, cpc, result, call, queue, cur, subdirs, later, tasks,
                   error, log>>

\* queue.shift() and processDirectory down to Stage 2a: the entries are read
\* and classified, the same-name sub-directories become the result and the
\* directory moves are started together
ProcessDirectory ==
    /\ pc = "loop"
    /\ queue # <<>>
    /\ LET fromDir == Head(queue).from
           toDir == Head(queue).to
       IN  /\ cur' = Head(queue)
           /\ queue' = Tail(queue)
           /\ IF ~isDirectory(fs, fromDir)
              THEN \* readDir(fromDir) rejects
                   /\ outcome' = "raised"
                   /\ error' = "readDir"
                   /\ pc' = "end"
                   /\ log' = log \cup {<<"readDirFailed", fromDir>>}
                   /\ UNCHANGED <<subdirs, later, tasks>>
              ELSE /\ \E order \in Orders(subdirBothExist(fs, fromDir, toDir)) :
                          subdirs' = [i \in DOMAIN order |->
                                         Pair(Child(fromDir, order[i]), Child(toDir, order[i]))]
                   /\ tasks' = {Task(Child(fromDir, n), Child(toDir, n), "dirRename") :
                                   n \in dirDirectMoves(fs, fromDir, toDir)}
                   /\ later' = [skip |-> fileOps(fs, call.options, fromDir, {Skip}),
                                rename |-> fileOps(fs, call.options, fromDir, {Rename}),
                                replace |-> fileOps(fs, call.options, fromDir,
                                                    {Replace, CheckReplace})]
                   /\ pc' = "stage2a"
                   /\ log' = log \cup {<<"processed", fromDir, toDir>>}
                   /\ UNCHANGED <<outcome, error>>
    /\ UNCHANGED <<sync, fs, fs0, denied, pool, cmd, cpc, result, call>>

\* Stage 2a is over: the Skip operations are started together (Stage 2b)
StartSkipOps ==
    /\ pc = "stage2a" /\ tasks = {}
    /\ tasks' = {Task(Child(cur.from, n), Child(cur.to, n), "skipExists") : n \in later.skip}
    /\ pc' = "stage2b"
    /\ UNCHANGED <<sync, fs, fs0, denied, pool, cmd, cpc, result, call, queue, cur, subdirs, later,
                   outcome, error, log>>

\* Stage 2b is over: the Rename operations are started together (Stage 2c)
StartRenameOps ==
    /\ pc = "stage2b" /\ tasks = {}
    /\ tasks' = {Task(Child(cur.from, n), Child(cur.to, n), "mfrExists") : n \in later.rename}
    /\ pc' = "stage2c"
    /\ UNCHANGED <<sync, fs, fs0, denied, pool, cmd, cpc, result, call, queue, cur, subdirs, later,
                   outcome, error, log>>

\* Stage 2c is over: the Replace / CheckReplace operations are started (Stage 3)
StartReplaceOps ==
    /\ pc = "stage2c" /\ tasks = {}
    /\ tasks' = {Task(Child(cur.from, n), Child(cur.to, n),
                      moveFileStart(call.options, Child(cur.from, n))) : n \in later.replace}
    /\ pc' = "stage3"
    /\ UNCHANGED <<sync, fs, fs0, denied, pool, cmd, cpc, result, call, queue, cur, subdirs, later,
                   outcome, error, log>>

\* one started operation performs its next filesystem request; an operation
\* that rejects makes Promise.all, processDirectory and the call reject, while
\* the operations started with it go on
\* the operation t has taken the step with result r
TaskApply(t, r) ==
            /\ fs' = r.fs
            /\ log' = log \cup r.ev
            /\ tasks' = (tasks \ {t}) \cup
                           IF r.at \in {"done", "throw"} THEN {}
                           ELSE {[t EXCEPT !.at = r.at, !.count = r.count]}
            /\ IF r.at = "throw" /\ outcome = "running"
               THEN /\ outcome' = "raised"
                    /\ error' = (IF <<"tooMany", t.src>> \in r.ev THEN "tooMany"
                                 ELSE "fileOp")
                    /\ pc' = "end"
               ELSE UNCHANGED <<outcome, error, pc>>
            /\ UNCHANGED <<sync, fs0, denied, pool, cmd, cpc, result, call, queue, cur, subdirs, later>>

TaskAdvance ==
    \E t \in tasks :
        TaskApply(t, TaskStep(fs, denied, call.options, t, tasks = {t}))

\* the result of the cleanup: the filesystem, what was logged, and the error
\* that leaves the loop ("none" when the loop goes on)
CleanupResult(f, ev, err) == [fs |-> f, ev |-> ev, err |-> err]

\* a cleanup without the try around remove
cleanupDirectory_uncaught(f, dn, options, currentFrom) ==
    IF options.default = Skip /\ isDirHavingFile(f, currentFrom)
    THEN CleanupResult(f, {<<"kept", currentFrom>>}, "none")
    ELSE IF removeFails(f, dn, currentFrom, TRUE)
    THEN CleanupResult(f, {<<"removeFailed", currentFrom>>}, "remove")
    ELSE CleanupResult(removeFs(f, currentFrom), {<<"remove", currentFrom>>}, "none")

\* lines 128-138: the source directory is removed unless default is Skip and
\* it still holds files; a remove that rejects is caught and logged
cleanupDirectory(f, dn, options, currentFrom) ==
    IF options.default = Skip /\ isDirHavingFile(f, currentFrom)
    THEN CleanupResult(f, {<<"kept", currentFrom>>}, "none")
    ELSE IF removeFails(f, dn, currentFrom, TRUE)
    THEN CleanupResult(f, {<<"removeFailed", currentFrom>>}, "none")
    ELSE CleanupResult(removeFs(f, currentFrom), {<<"remove", currentFrom>>}, "none")

\* processDirectory returned: its pairs join the worklist and the cleanup
\* runs; an error it lets through ends the call
Cleanup ==
    /\ pc = "stage3" /\ tasks = {}
    /\ queue' = queue \o subdirs
    /\ \E r \in {cleanupDirectory(fs, denied, call.options, cur.from)} :
          /\ fs' = r.fs
          /\ log' = log \cup r.ev
          /\ IF r.err = "none"
             THEN /\ pc' = "loop"
                  /\ UNCHANGED <<outcome, error>>
             ELSE /\ outcome' = "raised"
                  /\ error' = r.err
                  /\ pc' = "end"
    /\ UNCHANGED <<sync, fs0, denied, pool, cmd, cpc, result, call, cur, subdirs, later, tasks>>

----------------------------------------------------------------------------
(* bms/scanner.ts, fs/similarity.ts, fs/path.ts as the rename commands use  *)
(* them                                                                    *)

CHART_FILE_EXTS == {bms, bme, bml, pms, bmson}

MEDIA_EXT_LIST == {<<"o","g","g">>, wav, <<"f","l","a","c">>, <<"m","p","4">>,
                   <<"w","m","v">>, <<"a","v","i">>, <<"m","p","g">>,
                   <<"m","p","e","g">>, <<"b","m","p">>, <<"j","p","g">>,
                   <<"p","n","g">>}

isChartFile(name) == getFileExtension(name) \in CHART_FILE_EXTS

\* what BmsParser reads from a chart file: contents 2 carry neither a title
\* nor an artist, the others the title "t" and the artist "r"
parsedTitle(d) == IF d = 2 THEN <<>> ELSE <<"t">>
parsedArtist(d) == IF d = 2 THEN <<>> ELSE <<"r">>

\* getDirBmsList: the chart files directly in the directory; [] when the
\* directory cannot be read
getDirBmsList(f, dirPath) ==
    IF ~isDirectory(f, dirPath) THEN {}
    ELSE {n \in readDir(f, dirPath) : ~f[Child(dirPath, n)].dir /\ isChartFile(n)}

DEFAULT_TITLE == <<"!","!","!"," ","U","n","k","n","o","w","n","T","i","t","l","e",
                   " ","!","!","!">>
DEFAULT_ARTIST == <<"!","!","!"," ","U","n","k","n","o","w","n","A","r","t","i","s","t",
                    " ","!","!","!">>

InvalidChars == {"<", ">", ":", "\"", "/", "\\", "|", "?", "*"}

RECURSIVE trim(_)
\* String.prototype.trim for blanks
trim(s) ==
    IF s = <<>> THEN s
    ELSE IF Head(s) = " " THEN trim(Tail(s))
    ELSE IF s[Len(s)] = " " THEN trim(SubSeq(s, 1, Len(s) - 1))
    ELSE s

\* fs/path.ts getValidFileName
getValidFileName(fileName) ==
    LET validName == trim([i \in 1..Len(fileName) |->
                             IF fileName[i] \in InvalidChars THEN "_" ELSE fileName[i]])
    IN  IF validName = <<>> THEN <<"u","n","n","a","m","e","d">> ELSE validName

\* fs/name.ts getValidFsName: each illegal character becomes its full-width
\* form, written here by its code point
FullWidth(c) ==
    CASE c = ":" -> "U+FF1A" [] c = "\\" -> "U+FF0F" [] c = "/" -> "U+FF0F"
      [] c = "*" -> "U+FF0A" [] c = "?" -> "U+FF1F" [] c = "!" -> "U+FF01"
      [] c = "\"" -> "U+FF02" [] c = "<" -> "U+FF1C" [] c = ">" -> "U+FF1E"
      [] c = "|" -> "U+FF5C" [] OTHER -> c
getValidFsName(oriName) == [i \in 1..Len(oriName) |-> FullWidth(oriName[i])]

\* dirName.includes(' [') && dirName.endsWith(']')
isAlreadyFormatted(dirName) ==
    /\ \E i \in 1..(Len(dirName) - 1) : dirName[i] = " " /\ dirName[i+1] = "["
    /\ Len(dirName) > 0 /\ dirName[Len(dirName)] = "]"

\* the target directory name for a naming type
targetDirName(setType, workDirName, validTitle, validArtist) ==
    CASE setType = "ReplaceTitleArtist" ->
           validTitle \o <<" ","[">> \o validArtist \o <<"]">>
      [] setType = "AppendTitleArtist" ->
           workDirName \o <<" ">> \o validTitle \o <<" ","[">> \o validArtist \o <<"]">>
      [] OTHER ->
           workDirName \o <<" ","[">> \o validArtist \o <<"]">>

\* fetchDirElements: the stems of the entries of a directory; entry.children
\* is never defined on an entry of readDir, so no entry is left out
entryStems(f, dir) ==
    IF ~isDirectory(f, dir) THEN {} ELSE {getFileStem(n) : n \in readDir(f, dir)}
mediaStems(f, dir) ==
    IF ~isDirectory(f, dir) THEN {}
    ELSE {getFileStem(n) : n \in {m \in readDir(f, dir) : getFileExtension(m) \in MEDIA_EXT_LIST}}

\* bmsDirSimilarity as the fraction <<numerator, denominator>>; <<0, 1>> is 0.0
bmsDirSimilarity(f, dirA, dirB) ==
    LET a == mediaStems(f, dirA)
        b == mediaStems(f, dirB)
        minSize == IF Cardinality(a) < Cardinality(b) THEN Cardinality(a) ELSE Cardinality(b)
    IN  IF entryStems(f, dirA) = {} \/ a = {} \/ entryStems(f, dirB) = {} \/ b = {}
        THEN <<0, 1>>
        ELSE <<Cardinality(a \cap b), minSize>>

\* a gate that lets every pair of directories pass
belowThreshold_never(sim) == FALSE

\* similarity < 0.8
belowThreshold(sim) == 10 * sim[1] < 8 * sim[2]

----------------------------------------------------------------------------
(* work.ts: setNameByBms, setNameByBmsOptimized, tryMoveOutNestedFiles      *)

NoPath == <<>>
MergeCmd == [kind |-> "merge", workDir |-> NoPath, setType |-> "none",
             dryRun |-> FALSE, preset |-> "none", skipAlreadyFormatted |-> FALSE]
SetNameCmd(kind, workDir, setType, dryRun, preset, skipFmt) ==
    [kind |-> kind, workDir |-> workDir, setType |-> setType, dryRun |-> dryRun,
     preset |-> preset, skipAlreadyFormatted |-> skipFmt]

\* what setNameByBms decides once a chart with contents d is found: lines
\* 133-212 up to the filesystem request it ends with; likewise processBmsInfo
\* (bms/encoding.ts), which has no default title, names the target with
\* getValidFsName and has no naming type
setNameDecision(f, c, d) ==
    LET workDir == c.workDir
        own == c.kind = "processBmsInfo"
        title == IF parsedTitle(d) = <<>> /\ ~own THEN DEFAULT_TITLE ELSE parsedTitle(d)
        artist == IF parsedArtist(d) = <<>> /\ ~own THEN DEFAULT_ARTIST ELSE parsedArtist(d)
        workDirName == BaseName(workDir)
        target == Child(Parent(workDir),
                        IF own
                        THEN getValidFsName(title) \o <<" ","[">> \o getValidFsName(artist)
                                 \o <<"]">>
                        ELSE targetDirName(c.setType, workDirName, getValidFileName(title),
                                           getValidFileName(artist)))
        sim == bmsDirSimilarity(f, workDir, target)
    IN  IF Len(workDir) < 2 THEN [do |-> "return", target |-> NoPath, ev |-> {}]
        ELSE IF own /\ title = <<>> /\ artist = <<>>
        THEN [do |-> "return", target |-> NoPath, ev |-> {}]
        ELSE IF ~own /\ title = DEFAULT_TITLE /\ artist = DEFAULT_ARTIST
        THEN [do |-> "return", target |-> NoPath, ev |-> {}]
        ELSE IF c.kind = "setNameByBms" /\ c.skipAlreadyFormatted
                /\ isAlreadyFormatted(workDirName)
        THEN [do |-> "return", target |-> NoPath, ev |-> {}]
        ELSE IF workDir = target
        THEN [do |-> "return", target |-> target, ev |-> {}]
        ELSE IF exists(f, target)
        THEN IF belowThreshold(sim)
             THEN [do |-> "return", target |-> target,
                   ev |-> {<<"targetExists", target>>, <<"mergeCanceled", sim>>}]
             ELSE [do |-> IF c.dryRun THEN "return" ELSE "merge", target |-> target,
                   ev |-> {<<"targetExists", target>>, <<"mergeStart", sim>>}]
        ELSE [do |-> IF c.dryRun THEN "return" ELSE "rename", target |-> target,
              ev |-> {<<"targetMissing", target>>}]

\* a moveElementsAcrossDir call is issued
StartCall(fromDir, toDir, options) ==
    /\ call' = [fromDir |-> fromDir, toDir |-> toDir, options |-> options]
    /\ pc' = "entry"
    /\ outcome' = "running"
    /\ queue' = <<>>
    /\ subdirs' = <<>>
    /\ later' = NoOps

\* setNameByBms / setNameByBmsOptimized from the chart lookup to its next
\* filesystem mutation or its end; without a chart, tryMoveOutNestedFiles
SetNameStep ==
    /\ cpc = "lookup"
    /\ LET workDir == cmd.workDir
           charts == getDirBmsList(fs, workDir)
           entries == readDir(fs, workDir)
       IN  IF charts = {}
           THEN \* tryMoveOutNestedFiles(workDir)
                IF ~isDirectory(fs, workDir)
                THEN /\ result' = "raised"
                     /\ cpc' = "done"
                     /\ log' = log \cup {<<"noChart", workDir>>}
                     /\ UNCHANGED <<fs, call, pc, outcome, queue, subdirs, later>>
                ELSE IF entries = {}
                THEN /\ fs' = IF removeFails(fs, denied, workDir, TRUE) THEN fs
                              ELSE removeFs(fs, workDir)
                     /\ log' = log \cup {<<"noChart", workDir>>} \cup
                                  IF removeFails(fs, denied, workDir, TRUE)
                                  THEN {<<"removeFailed", workDir>>}
                                  ELSE {<<"remove", workDir>>}
                     /\ result' = "returned"
                     /\ cpc' = "done"
                     /\ UNCHANGED <<call, pc, outcome, queue, subdirs, later>>
                ELSE IF Cardinality(entries) # 1
                        \/ \E n \in entries : ~fs[Child(workDir, n)].dir
                THEN /\ result' = "returned"
                     /\ cpc' = "done"
                     /\ log' = log \cup {<<"noChart", workDir>>}
                     /\ UNCHANGED <<fs, call, pc, outcome, queue, subdirs, later>>
                ELSE /\ \E n \in entries :
                          StartCall(Child(workDir, n), workDir,
                                    replaceOptionsFromPreset("Default"))
                     /\ cpc' = "nested"
                     /\ log' = log \cup {<<"noChart", workDir>>, <<"moveOutNested", workDir>>}
                     /\ UNCHANGED <<fs, result>>
           ELSE \E n \in charts :
                  LET dec == setNameDecision(fs, cmd, fs[Child(workDir, n)].data)
                  IN  /\ log' = log \cup {<<"chart", workDir>>} \cup dec.ev
                      /\ IF dec.do = "merge"
                         THEN /\ StartCall(workDir, dec.target,
                                           replaceOptionsFromPreset(cmd.preset))
                              /\ cpc' = "merging"
                              /\ UNCHANGED <<fs, result>>
                         ELSE IF dec.do = "rename"
                         THEN /\ IF renameFails(fs, denied, workDir, dec.target)
                                 THEN /\ result' = "raised"
                                      /\ UNCHANGED fs
                                 ELSE /\ result' = "returned"
                                      /\ fs' = renameFs(fs, workDir, dec.target)
                              /\ cpc' = "done"
                              /\ UNCHANGED <<call, pc, outcome, queue, subdirs, later>>
                         ELSE /\ result' = "returned"
                              /\ cpc' = "done"
                              /\ UNCHANGED <<fs, call, pc, outcome, queue, subdirs, later>>
    /\ UNCHANGED <<sync, fs0, denied, pool, cmd, cur, tasks, error>>

\* tryMoveOutNestedFiles' merge has ended: an error ends the command, else
\* the chart lookup is repeated
NestedReturn ==
    /\ cpc = "nested"
    /\ outcome # "running"
    /\ IF outcome = "raised"
       THEN result' = "raised" /\ cpc' = "done"
       ELSE cpc' = "lookup" /\ UNCHANGED result
    /\ pc' = "idle"
    /\ UNCHANGED <<sync, fs, fs0, denied, pool, cmd, call, queue, cur, subdirs, later, tasks,
                   outcome, error, log>>

\* the command's last (or only) merge has ended, and with it the command
MergeReturn ==
    /\ cpc \in {"merging", "merge"}
    /\ outcome # "running"
    /\ result' = outcome
    /\ cpc' = "done"
    /\ pc' = "idle"
    /\ UNCHANGED <<sync, fs, fs0, denied, pool, cmd, call, queue, cur, subdirs, later, tasks,
                   outcome, error, log>>

----------------------------------------------------------------------------
(* fs/sync.ts: the presets                                                  *)

None == "None"
Copy == "Copy"
Move == "Move"
SoftSyncExec == {None, Copy, Move}

flac == <<"f","l","a","c">>
mp4 == <<"m","p","4">>
avi == <<"a","v","i">>

CleanupStrategy(removeDstExtra, removeSrcSame) ==
    [removeDstExtra |-> removeDstExtra, removeSrcSame |-> removeSrcSame]

FileCompareStrategy(checkSize, checkMtime, checkSha512) ==
    [checkSize |-> checkSize, checkMtime |-> checkMtime, checkSha512 |-> checkSha512]

\* the extension lists are sets (the code only asks includes); a bound pair
\* is <<from extensions, to extensions>>
SoftSyncPreset(allow, disallow, allowOther, pairs, cleanup, fileCompare, exec) ==
    [allowSrcExts |-> allow, disallowSrcExts |-> disallow, allowOtherExts |-> allowOther,
     noActivateExtBoundPairs |-> pairs, cleanup |-> cleanup,
     fileCompare |-> fileCompare, exec |-> exec]

presetDefault ==
    SoftSyncPreset({}, {}, TRUE, {}, CleanupStrategy(TRUE, FALSE),
                   FileCompareStrategy(TRUE, TRUE, FALSE), Copy)

presetForAppend ==
    SoftSyncPreset({}, {}, TRUE, {}, CleanupStrategy(FALSE, TRUE),
                   FileCompareStrategy(TRUE, FALSE, TRUE), None)

presetFlac ==
    SoftSyncPreset({flac}, {}, FALSE, {}, CleanupStrategy(FALSE, FALSE),
                   FileCompareStrategy(TRUE, TRUE, FALSE), Copy)

presetCache ==
    SoftSyncPreset({mp4, avi, flac}, {}, FALSE, {}, CleanupStrategy(FALSE, FALSE),
                   FileCompareStrategy(TRUE, TRUE, FALSE), None)

----------------------------------------------------------------------------
(* fs/sync.ts: syncFolder                                                   *)

\* an extension filter whose allow list wins over the disallow list
extOk_allowWins(preset, ext) ==
    ext \in preset.allowSrcExts \/ (preset.allowOtherExts /\ ext \notin preset.disallowSrcExts)

\* lines 212-218: the extension filter
extOk(preset, ext) ==
    IF ext \in preset.disallowSrcExts THEN FALSE
    ELSE IF ext \in preset.allowSrcExts THEN TRUE
    ELSE preset.allowOtherExts

\* line 228: the path string up to its last dot, a dot and the extension
boundPath(dstPath, toExt) ==
    LET s == PathString(dstPath)
    IN  SubSeq(s, 1, lastIndexOf(s, ".") - 1) \o <<".">> \o toExt

\* exists() on a path string
existsAt(f, s) == \E p \in DOMAIN f : PathString(p) = s

\* lines 224-238: a file of a bound extension exists at the destination
bound(f, preset, name, dstPath) ==
    \E pair \in preset.noActivateExtBoundPairs :
        /\ getFileExtension(name) \in pair[1]
        /\ \E toExt \in pair[2] : existsAt(f, boundPath(dstPath, toExt))

\* a comparison of the metadata that leaves the size out
metaSame_ignoresSize(f, preset, srcPath, dstPath) ==
    preset.fileCompare.checkMtime => f[srcPath].mtime = f[dstPath].mtime

\* a comparison of the metadata that leaves the modification time out
metaSame_ignoresMtime(f, preset, srcPath, dstPath) ==
    preset.fileCompare.checkSize =>
        fileSize(f[srcPath].data) = fileSize(f[dstPath].data)

\* lines 251-259: the comparisons of the metadata that are switched on
metaSame(f, preset, srcPath, dstPath) ==
    /\ preset.fileCompare.checkSize =>
          fileSize(f[srcPath].data) = fileSize(f[dstPath].data)
    /\ preset.fileCompare.checkMtime => f[srcPath].mtime = f[dstPath].mtime

\* a comparison that takes every destination file for the source's
judgedSame_always(f, preset, srcPath, dstPath) == TRUE

\* lines 244-264: same, for a destination that exists
judgedSame(f, preset, srcPath, dstPath) ==
    /\ metaSame(f, preset, srcPath, dstPath)
    /\ preset.fileCompare.checkSha512 => isFileSameContent(f, srcPath, dstPath)

\* a comparison that reads both files whatever their sizes
digestsComputed_always(f, file1, file2) == {p \in {file1, file2} : isFile(f, p)}

\* the files isFileSameContent reads to compute a digest: none when the
\* sizes differ
digestsComputed(f, file1, file2) ==
    IF ~exists(f, file1) \/ ~exists(f, file2) THEN {}
    ELSE IF fileSize(f[file1].data) # fileSize(f[file2].data) THEN {}
    ELSE {p \in {file1, file2} : ~f[p].dir}

\* the modification time of a file written now
Now == 2

\* copyFile is refused: the source is no file, the destination is a directory
\* or has no parent directory
copyFails(f, src, dst) ==
    \/ ~isFile(f, src)
    \/ isDirectory(f, dst)
    \/ Len(dst) > 1 /\ ~isDirectory(f, Parent(dst))

\* the filesystem after copyFile(src, dst); the copy's modification time m
\* is the source's or the time of the copy, as the platform has it
copyFs(f, src, dst, m) ==
    [q \in DOMAIN f \cup {dst} |-> IF q = dst THEN FileNodeAt(f[src].data, m) ELSE f[q]]

\* createDirectory: mkdir(dirPath, {recursive: true}) below an existing parent
mkdirFs(f, p) == [q \in DOMAIN f \cup {p} |-> IF q = p THEN DirNode ELSE f[q]]

SyncResult(f, ev, err) == [fs |-> f, ev |-> ev, err |-> err]

\* lines 208-286: one file entry of the source, in pass run
syncFile(f, preset, run, name, srcPath, dstPath, m) ==
    IF ~extOk(preset, getFileExtension(name))
    THEN SyncResult(f, {<<"ineligible", run, srcPath>>}, "none")
    ELSE IF bound(f, preset, name, dstPath)
    THEN SyncResult(f, {<<"bound", run, srcPath>>}, "none")
    ELSE
      LET dstFileExists == exists(f, dstPath)
          same == dstFileExists /\ judgedSame(f, preset, srcPath, dstPath)
          hashed == IF dstFileExists /\ preset.fileCompare.checkSha512
                       /\ metaSame(f, preset, srcPath, dstPath)
                    THEN digestsComputed(f, srcPath, dstPath) ELSE {}
          evJ == (IF dstFileExists THEN {<<"compared", run, srcPath, same>>}
                  ELSE {<<"absent", run, srcPath>>})
                 \cup {<<"digest", run, p>> : p \in hashed}
          transfer == ~dstFileExists \/ ~same
      IN  IF transfer /\ preset.exec = Copy
          THEN IF copyFails(f, srcPath, dstPath)
               THEN SyncResult(f, evJ, "copyFile")
               ELSE SyncResult(copyFs(f, srcPath, dstPath, m),
                               evJ \cup {<<"copy", run, srcPath>>}, "none")
          ELSE IF transfer /\ preset.exec = Move
          THEN IF renameFails(f, {}, srcPath, dstPath)
               THEN SyncResult(f, evJ, "rename")
               ELSE SyncResult(renameFs(f, srcPath, dstPath),
                               evJ \cup {<<"move", run, srcPath>>}, "none")
          ELSE IF preset.cleanup.removeSrcSame /\ dstFileExists /\ same
          THEN IF removeFails(f, {}, srcPath, FALSE)
               THEN SyncResult(f, evJ, "remove")
               ELSE SyncResult(removeFs(f, srcPath),
                               evJ \cup {<<"removeSrc", run, srcPath>>}, "none")
          ELSE SyncResult(f, evJ, "none")

\* one syncFolder invocation on the recursion stack
Frame(src, dst) ==
    [src |-> src, dst |-> dst, phase |-> "enter", srcTodo |-> {}, dstTodo |-> {}]

NoSync == [srcDir |-> <<>>, dstDir |-> <<>>, preset |-> presetDefault, run |-> 0,
           start |-> <<>>, stack |-> <<>>]

Top == sync.stack[Len(sync.stack)]

SetTop(fr) == [sync EXCEPT !.stack[Len(sync.stack)] = fr]

\* the entries of readDir with their isDirectory flag
entries(f, d) == {<<n, f[Child(d, n)].dir>> : n \in readDir(f, d)}

SyncRunning == cmd.kind = "sync" /\ result = "running" /\ sync.stack # <<>>

\* line 180: the two directories are read; a failure ends the run
SyncEnter ==
    /\ SyncRunning
    /\ Top.phase = "enter"
    /\ IF ~isDirectory(fs, Top.src) \/ ~isDirectory(fs, Top.dst)
       THEN /\ result' = "raised"
            /\ error' = "readDir"
            /\ UNCHANGED sync
       ELSE /\ sync' = SetTop([Top EXCEPT !.phase = "src",
                                          !.srcTodo = entries(fs, Top.src),
                                          !.dstTodo = entries(fs, Top.dst)])
            /\ UNCHANGED <<result, error>>
    /\ UNCHANGED <<fs, log, fs0, denied, pool, cmd, cpc, call, pc, queue, cur, subdirs, later,
                   tasks, outcome>>

\* lines 194-287: the next entry of the source, in the order readDir gave
SyncSrcEntry ==
    /\ SyncRunning
    /\ Top.phase = "src"
    /\ \E e \in Top.srcTodo :
          LET srcPath == Child(Top.src, e[1])
              dstPath == Child(Top.dst, e[1])
              rest == [Top EXCEPT !.srcTodo = Top.srcTodo \ {e}]
          IN  IF e[2]
              THEN /\ fs' = IF exists(fs, dstPath) THEN fs ELSE mkdirFs(fs, dstPath)
                   /\ log' = log \cup (IF exists(fs, dstPath) THEN {}
                                       ELSE {<<"mkdir", sync.run, dstPath>>})
                   /\ sync' = [sync EXCEPT !.stack =
                                  Append([sync.stack EXCEPT ![Len(sync.stack)] = rest],
                                         Frame(srcPath, dstPath))]
                   /\ UNCHANGED <<result, error>>
              ELSE \E m \in {fs[srcPath].mtime, Now} :
                     LET r == syncFile(fs, sync.preset, sync.run, e[1], srcPath, dstPath, m)
                     IN  /\ fs' = r.fs
                         /\ log' = log \cup r.ev
                         /\ IF r.err = "none"
                            THEN /\ sync' = SetTop(rest)
                                 /\ UNCHANGED <<result, error>>
                            ELSE /\ result' = "raised"
                                 /\ error' = r.err
                                 /\ UNCHANGED sync
    /\ UNCHANGED <<fs0, denied, pool, cmd, cpc, call, pc, queue, cur, subdirs, later, tasks,
                   outcome>>

\* lines 290-305: the next entry the destination had when it was read
SyncDstEntry ==
    /\ SyncRunning
    /\ Top.phase = "src" /\ Top.srcTodo = {}
    /\ sync.preset.cleanup.removeDstExtra
    /\ \E e \in Top.dstTodo :
          LET srcPath == Child(Top.src, e[1])
              dstPath == Child(Top.dst, e[1])
              rest == [Top EXCEPT !.dstTodo = Top.dstTodo \ {e}]
          IN  IF exists(fs, srcPath)
              THEN /\ sync' = SetTop(rest)
                   /\ UNCHANGED <<fs, log, result, error>>
              ELSE IF removeFails(fs, {}, dstPath, e[2])
              THEN /\ result' = "raised"
                   /\ error' = "remove"
                   /\ UNCHANGED <<fs, log, sync>>
              ELSE /\ fs' = removeFs(fs, dstPath)
                   /\ log' = log \cup {<<"removeDst", sync.run, dstPath>>}
                   /\ sync' = SetTop(rest)
                   /\ UNCHANGED <<result, error>>
    /\ UNCHANGED <<fs0, denied, pool, cmd, cpc, call, pc, queue, cur, subdirs, later, tasks,
                   outcome>>

\* line 333: the invocation returns, to the loop of its caller or to the
\* caller of the run
SyncLeave ==
    /\ SyncRunning
    /\ Top.phase = "src" /\ Top.srcTodo = {}
    /\ sync.preset.cleanup.removeDstExtra => Top.dstTodo = {}
    /\ sync' = [sync EXCEPT !.stack = SubSeq(sync.stack, 1, Len(sync.stack) - 1)]
    /\ result' = IF Len(sync.stack) = 1 THEN "returned" ELSE result
    /\ UNCHANGED <<fs, log, error, fs0, denied, pool, cmd, cpc, call, pc, queue, cur, subdirs,
                   later, tasks, outcome>>

\* syncFolder is run once more on the trees the first run left
SyncAgain ==
    /\ cmd.kind = "sync" /\ result = "returned" /\ sync.run = 1
    /\ sync' = [sync EXCEPT !.run = 2, !.start = fs,
                            !.stack = <<Frame(sync.srcDir, sync.dstDir)>>]
    /\ result' = "running"
    /\ UNCHANGED <<fs, log, error, fs0, denied, pool, cmd, cpc, call, pc, queue, cur, subdirs,
                   later, tasks, outcome>>

----------------------------------------------------------------------------
(* The trees, policies and commands the runs start from                     *)

\* the number of files in the source tree of a merge
MaxSrcFiles == 2

\* the file contents: two contents of one size
Data == {1, 2}

aTxt == <<"a",".","t","x","t">>
a2Txt == <<"a",".","2",".","t","x","t">>
bNoExt == <<"b">>
cBms == <<"c",".","b","m","s">>
mWav == <<"m",".","w","a","v">>
sub == <<"s","u","b">>

SrcRoot == <<<<"S">>>>
DstRoot == <<<<"D">>>>
FileRoot == <<<<"F">>>>
Missing == <<<<"N">>>>
PackRoot == <<<<"P">>>>
WorkDir == Child(PackRoot, <<"w">>)
TitledDir == Child(PackRoot, <<"t"," ","[","r","]">>)

\* the sets of files over given names: pairs <<name, contents>>, one per name
FileSets(names) ==
    {F \in SUBSET (names \X Data) : \A e1, e2 \in F : e1[1] = e2[1] => e1 = e2}

\* a directory holding the files F
DirWith(dir, F) ==
    [p \in {dir} \cup {Child(dir, e[1]) : e \in F} |->
        IF p = dir THEN DirNode
        ELSE FileNode((CHOOSE e \in F : e[1] = BaseName(p))[2])]

Absent == [on |-> FALSE, files |-> {}]
SubChoices(names) == {Absent} \cup {[on |-> TRUE, files |-> F] : F \in FileSets(names)}

\* a directory, or nothing
OptDir(dir, choice) == IF choice.on THEN DirWith(dir, choice.files) ELSE <<>>

\* the policies of the runs: every default alone, the two presets, and
\* extension tables that differ from the default
Policies ==
    {OptionsDefault(a) : a \in ReplaceAction}
    \cup {OptionsExt(txt, a, Replace) : a \in {Skip, Rename}}
    \cup {OptionsExt(txt, CheckReplace, Skip)}
    \cup {replaceOptionsFromPreset(pr) : pr \in {"Default", "UpdatePack"}}

----------------------------------------------------------------------------
(* media/concurrency.ts: ConcurrencyPool                                   *)

\* the add() calls made on one pool, numbered as they are made; the task of
\* call i and the promise task() returns are named i too
MaxAdds == 4
Adds == 1..MaxAdds

\* no pool in use
NoPool == [concurrency |-> 0, calls |-> 0, at |-> <<>>, race |-> <<>>,
           running |-> {}, settled |-> <<>>]

\* new ConcurrencyPool(concurrency): running is empty.  at[i] is where
\* call i of add() stands: not made ("new"), awaiting a race ("race"),
\* awaiting its task ("task"), returned ("done"); race[i] holds the promises
\* of the race it awaits; settled[i] is the state of the promise of task i
NewPool(concurrency) ==
    [concurrency |-> concurrency, calls |-> 0,
     at |-> [i \in Adds |-> "new"], race |-> [i \in Adds |-> {}],
     running |-> {}, settled |-> [i \in Adds |-> "pending"]]

\* a loop that is left after one race
loopAgain_never(p) == FALSE

\* line 33, evaluated again after a race: running.size >= concurrency
loopAgain(p) == Cardinality(p.running) >= p.concurrency

\* lines 33-41 up to the next await of call i: the loop condition holds and
\* the call awaits a race of the running promises, or task() is called and
\* its promise joins running
addEnter(p, i, full) ==
    IF full
    THEN [p EXCEPT !.at[i] = "race", !.race[i] = p.running]
    ELSE [p EXCEPT !.at[i] = "task", !.running = p.running \cup {i}]

PoolActive == cmd.kind = "pool"

\* part_016 lines 83-99: the next pool.add(...) is called, not awaited
PoolAdd ==
    /\ PoolActive
    /\ pool.calls < MaxAdds
    /\ LET i == pool.calls + 1
       IN  pool' = addEnter([pool EXCEPT !.calls = i], i,
                            Cardinality(pool.running) >= pool.concurrency)
    /\ UNCHANGED <<fs, fs0, denied, cmd, cpc, call, pc, queue, cur, subdirs, later, tasks,
                   outcome, error, result, log, sync>>

\* lines 34-35: a promise of the race has settled (a rejection is swallowed by
\* catch), the call goes on and evaluates the loop condition again
PoolRaceSettled ==
    /\ PoolActive
    /\ \E i \in Adds :
          /\ pool.at[i] = "race"
          /\ \E r \in pool.race[i] : pool.settled[r] # "pending"
          /\ pool' = addEnter(pool, i, loopAgain(pool))
    /\ UNCHANGED <<fs, fs0, denied, cmd, cpc, call, pc, queue, cur, subdirs, later, tasks,
                   outcome, error, result, log, sync>>

\* the task of a call ends: its promise is fulfilled or rejected
PoolTaskSettles ==
    /\ PoolActive
    /\ \E i \in Adds, how \in {"fulfilled", "rejected"} :
          /\ pool.at[i] = "task"
          /\ pool.settled[i] = "pending"
          /\ pool' = [pool EXCEPT !.settled[i] = how]
    /\ UNCHANGED <<fs, fs0, denied, cmd, cpc, call, pc, queue, cur, subdirs, later, tasks,
                   outcome, error, result, log, sync>>

\* lines 43-48: the awaited promise has settled; finally deletes it from
\* running and add() returns or throws
PoolAddReturns ==
    /\ PoolActive
    /\ \E i \in Adds :
          /\ pool.at[i] = "task"
          /\ pool.settled[i] # "pending"
          /\ pool' = [pool EXCEPT !.at[i] = "done", !.running = pool.running \ {i}]
    /\ UNCHANGED <<fs, fs0, denied, cmd, cpc, call, pc, queue, cur, subdirs, later, tasks,
                   outcome, error, result, log, sync>>

\* the policies of the runs in which a path is locked
FaultPolicies ==
    {OptionsDefault(Skip), OptionsExt(txt, Rename, Replace)}
    \cup {replaceOptionsFromPreset(pr) : pr \in {"Default", "UpdatePack"}}

Idle ==
    /\ queue = <<>>
    /\ cur = Pair(NoPath, NoPath)
    /\ subdirs = <<>>
    /\ later = NoOps
    /\ tasks = {}
    /\ outcome = "running"
    /\ error = "none"
    /\ result = "running"
    /\ log = {}
    /\ fs0 = fs

\* the paths a run may find locked
Lockable == {Child(SrcRoot, aTxt), Child(SrcRoot, sub)}

\* the argument pairs of a direct call: the merge of S into D, and the calls
\* that end at once (a missing source, source = destination, a source or
\* destination that is a file, a missing destination)
CallPaths ==
    ({SrcRoot, Missing, FileRoot} \X {DstRoot, SrcRoot, Missing, FileRoot})

\* moveElementsAcrossDir(from, to, options) on two trees with a common
\* sub-directory name; at most one path is locked
InitMerge ==
    /\ \E st \in FileSets({aTxt, a2Txt, bNoExt}), dt \in FileSets({aTxt, a2Txt, bNoExt}),
          ss \in SubChoices({aTxt}), ds \in SubChoices({aTxt}) :
          /\ Cardinality(st) + Cardinality(ss.files) <= MaxSrcFiles
          \* the two contents are interchangeable
          /\ <<aTxt, 2>> \notin dt /\ <<bNoExt, 2>> \notin dt
          /\ fs = DirWith(SrcRoot, st) @@ OptDir(Child(SrcRoot, sub), ss)
                    @@ DirWith(DstRoot, dt) @@ OptDir(Child(DstRoot, sub), ds)
                    @@ (FileRoot :> FileNode(1))
    /\ \E a \in CallPaths, options \in Policies :
          /\ a # <<SrcRoot, DstRoot>> =>
                /\ options = replaceOptionsFromPreset("Default")
                /\ FilesUnder(fs, DstRoot) \subseteq {Child(DstRoot, aTxt)}
          /\ call = [fromDir |-> a[1], toDir |-> a[2], options |-> options]
    /\ denied \in {{}} \cup {{p} : p \in {q \in DOMAIN fs \cap Lockable :
                                             /\ call.options \in FaultPolicies
                                             /\ call.toDir = DstRoot}}
    /\ cmd = MergeCmd
    /\ cpc = "merge"
    /\ pc = "entry"
    /\ sync = NoSync
    /\ Idle
    /\ pool = NoPool

\* a destination directory in which the first k candidate names of a.txt are
\* taken by files of other contents
Occupied(k) ==
    [p \in {DstRoot} \cup {Candidate(Child(SrcRoot, aTxt), Child(DstRoot, aTxt), i) :
                              i \in 1..k} |->
        IF p = DstRoot THEN DirNode ELSE FileNode(1)]

\* the merge of a.txt into a directory holding RenameCap or RenameCap + 1
\* taken candidates
InitCap ==
    /\ \E k \in {RenameCap, RenameCap + 1} :
          fs = DirWith(SrcRoot, {<<aTxt, 2>>}) @@ Occupied(k)
    /\ \E options \in {OptionsDefault(Rename), replaceOptionsFromPreset("UpdatePack")} :
          call = [fromDir |-> SrcRoot, toDir |-> DstRoot, options |-> options]
    /\ denied = {}
    /\ cmd = MergeCmd
    /\ cpc = "merge"
    /\ pc = "entry"
    /\ sync = NoSync
    /\ Idle
    /\ pool = NoPool

\* setNameByBms / setNameByBmsOptimized on a work directory P/w or
\* P/"t [r]", next to which the directory P/"t [r]" may exist; processBmsInfo
\* on such a directory that holds a chart, as workdirSetNameByBms calls it
InitSetName ==
    /\ \E wf \in FileSets({cBms, mWav}), wn \in SubChoices({cBms, mWav}),
          tt \in SubChoices({cBms, mWav}), nn \in {<<"n">>, mWav} :
          /\ Cardinality(wf) + Cardinality(wn.files) <= MaxSrcFiles
          /\ <<mWav, 2>> \notin wf \cup wn.files \cup tt.files
          /\ nn = mWav => wn.on /\ \A e \in wf : e[1] # mWav
          /\ fs = DirWith(PackRoot, {}) @@ DirWith(WorkDir, wf)
                    @@ OptDir(Child(WorkDir, nn), wn) @@ OptDir(TitledDir, tt)
    /\ \E kind \in {"setNameByBms", "setNameByBmsOptimized", "processBmsInfo"},
          workDir \in {WorkDir, TitledDir},
          setType \in {"ReplaceTitleArtist", "AppendTitleArtist", "AppendArtist"},
          dryRun \in BOOLEAN, preset \in {"Default", "UpdatePack"}, skipFmt \in BOOLEAN :
          /\ kind = "setNameByBmsOptimized" => ~skipFmt
          /\ kind = "processBmsInfo" =>
                /\ setType = "ReplaceTitleArtist" /\ preset = "UpdatePack" /\ ~skipFmt
                /\ getDirBmsList(fs, workDir) # {}
          /\ (workDir = TitledDir /\ kind # "processBmsInfo") => preset = "Default"
          /\ cmd = SetNameCmd(kind, workDir, setType, dryRun, preset, skipFmt)
    /\ call = [fromDir |-> NoPath, toDir |-> NoPath,
               options |-> replaceOptionsFromPreset("Default")]
    /\ denied = {}
    /\ cpc = "lookup"
    /\ pc = "idle"
    /\ sync = NoSync
    /\ Idle
    /\ pool = NoPool

Init == InitMerge \/ InitCap \/ InitSetName

mFlac == <<"m",".","f","l","a","c">>

SyncCmd == [kind |-> "sync", workDir |-> NoPath, setType |-> "none",
            dryRun |-> FALSE, preset |-> "none", skipAlreadyFormatted |-> FALSE]

\* what a destination file can be, seen from a source file of contents 1
\* and time 0: the same, touched later, of other contents, of another size
DstNodes == {FileNodeAt(1, 0), FileNodeAt(1, 1), FileNodeAt(2, 0), FileNodeAt(3, 0)}

\* the files of a destination directory: a node for some of the names
DstFiles(names) == UNION {[N -> DstNodes] : N \in SUBSET names}

\* a directory holding the files given as a function from names to nodes
DirOf(dir, F) ==
    [p \in {dir} \cup {Child(dir, n) : n \in DOMAIN F} |->
        IF p = dir THEN DirNode ELSE F[BaseName(p)]]

\* the presets of the runs: four of the code's, and presets that turn on
\* what those leave off (Move, both cleanups, a bound pair, a disallow list,
\* all three comparisons, no comparison)
SyncPresets ==
    {presetDefault, presetForAppend, presetFlac, presetCache,
     SoftSyncPreset({}, {}, TRUE, {}, CleanupStrategy(TRUE, FALSE),
                    FileCompareStrategy(TRUE, FALSE, TRUE), Move),
     SoftSyncPreset({}, {txt}, TRUE, {<<{wav}, {flac}>>}, CleanupStrategy(FALSE, FALSE),
                    FileCompareStrategy(TRUE, TRUE, FALSE), Copy),
     SoftSyncPreset({}, {}, TRUE, {}, CleanupStrategy(FALSE, TRUE),
                    FileCompareStrategy(FALSE, FALSE, TRUE), Move),
     SoftSyncPreset({txt, flac}, {txt}, FALSE, {}, CleanupStrategy(TRUE, TRUE),
                    FileCompareStrategy(TRUE, FALSE, FALSE), Copy),
     SoftSyncPreset({}, {}, TRUE, {}, CleanupStrategy(FALSE, FALSE),
                    FileCompareStrategy(TRUE, TRUE, TRUE), Copy),
     SoftSyncPreset({}, {}, TRUE, {}, CleanupStrategy(FALSE, FALSE),
                    FileCompareStrategy(FALSE, FALSE, FALSE), Copy)}

\* syncFolder(S, D, preset): S holds files of contents 1 and possibly a
\* sub-directory; D holds files, and at the sub-directory's name nothing, a
\* directory or a file
InitSync ==
    /\ \E st \in SUBSET {aTxt, mWav, mFlac}, ss \in SubChoices({aTxt}),
          dt \in DstFiles({aTxt, mFlac}), dsub \in {"absent", "dir", "file"},
          ds \in DstFiles({aTxt}) :
          /\ Cardinality(st) + Cardinality(ss.files) <= MaxSrcFiles
          /\ \A e \in ss.files : e[2] = 1
          /\ dsub # "dir" => DOMAIN ds = {}
          /\ fs = DirOf(SrcRoot, [n \in st |-> FileNode(1)])
                    @@ OptDir(Child(SrcRoot, sub), ss)
                    @@ DirOf(DstRoot, dt)
                    @@ (CASE dsub = "absent" -> <<>>
                          [] dsub = "dir" -> DirOf(Child(DstRoot, sub), ds)
                          [] OTHER -> (Child(DstRoot, sub) :> FileNode(1)))
    /\ \E preset \in SyncPresets :
          sync = [srcDir |-> SrcRoot, dstDir |-> DstRoot, preset |-> preset, run |-> 1,
                  start |-> fs, stack |-> <<Frame(SrcRoot, DstRoot)>>]
    /\ call = [fromDir |-> NoPath, toDir |-> NoPath,
               options |-> replaceOptionsFromPreset("Default")]
    /\ denied = {}
    /\ cmd = SyncCmd
    /\ cpc = "done"
    /\ pc = "idle"
    /\ Idle
    /\ pool = NoPool

NextSync ==
    \/ SyncEnter
    \/ SyncSrcEntry
    \/ SyncDstEntry
    \/ SyncLeave
    \/ SyncAgain

SpecSync == InitSync /\ [][NextSync]_vars

Next ==
    \/ MoveEntry
    \/ MoveReturn
    \/ ProcessDirectory
    \/ StartSkipOps
    \/ StartRenameOps
    \/ StartReplaceOps
    \/ TaskAdvance
    \/ Cleanup
    \/ SetNameStep
    \/ NestedReturn
    \/ MergeReturn

Spec == Init /\ [][Next]_vars

PoolCmd == [kind |-> "pool", workDir |-> NoPath, setType |-> "none",
            dryRun |-> FALSE, preset |-> "none", skipAlreadyFormatted |-> FALSE]

\* the pool sizes of the runs
PoolSizes == {1, 2, 3}

\* a new pool on which add() is about to be called
InitPool ==
    /\ \E n \in PoolSizes : pool = NewPool(n)
    /\ fs = DirWith(SrcRoot, {})
    /\ call = [fromDir |-> NoPath, toDir |-> NoPath,
               options |-> replaceOptionsFromPreset("Default")]
    /\ denied = {}
    /\ cmd = PoolCmd
    /\ cpc = "done"
    /\ pc = "idle"
    /\ sync = NoSync
    /\ Idle

NextPool ==
    \/ PoolAdd
    \/ PoolRaceSettled
    \/ PoolTaskSettles
    \/ PoolAddReturns

SpecPool == InitPool /\ [][NextPool]_vars

\* moveElementsAcrossDir(S, D, options) on trees that make the worklist grow
\* (the sub-directory is on both sides or on one) and the rename loop count
\* (a.txt and a.2.txt are taken); the sub-directory may be locked
InitLive ==
    /\ \E dt \in {{}, {<<aTxt, 1>>}, {<<aTxt, 1>>, <<a2Txt, 1>>}},
          ds \in {Absent, [on |-> TRUE, files |-> {<<aTxt, 1>>}]} :
          fs = DirWith(SrcRoot, {<<aTxt, 2>>, <<bNoExt, 1>>})
                 @@ DirWith(Child(SrcRoot, sub), {<<aTxt, 2>>})
                 @@ DirWith(DstRoot, dt) @@ OptDir(Child(DstRoot, sub), ds)
    /\ \E options \in Policies :
          call = [fromDir |-> SrcRoot, toDir |-> DstRoot, options |-> options]
    /\ denied \in {{}, {Child(SrcRoot, sub)}}
    /\ cmd = MergeCmd
    /\ cpc = "merge"
    /\ pc = "entry"
    /\ sync = NoSync
    /\ Idle
    /\ pool = NoPool

\* the steps the call itself takes between its awaits
Control ==
    \/ MoveEntry
    \/ MoveReturn
    \/ ProcessDirectory
    \/ StartSkipOps
    \/ StartRenameOps
    \/ StartReplaceOps
    \/ Cleanup
    \/ MergeReturn

\* the steps of a direct moveElementsAcrossDir call
NextMerge == Control \/ TaskAdvance

\* a started file operation is advanced again and again until it settles;
\* TaskAdvance has no guard but a pending operation and every step of it
\* changes the operation, so this is weak fairness of TaskAdvance with its
\* enabling condition written out
TaskFair == []<>(tasks = {}) \/ []<><<TaskAdvance>>_vars

\* every await of the call resolves: the call continues when it can, and the
\* operations it started are served
SpecLive ==
    /\ InitLive \/ InitCap
    /\ [][NextMerge]_vars
    /\ WF_vars(Control)
    /\ TaskFair

----------------------------------------------------------------------------
(* Properties of the merge engine                                          *)

\* a direct moveElementsAcrossDir call has ended (returned or raised)
MergeEnded == cmd.kind = "merge" /\ result # "running"

\* the destination path that corresponds to a path of the source tree
Counterpart(p) == call.toDir \o SubSeq(p, Len(call.fromDir) + 1, Len(p))

\* the file p of the source tree is where and what it was before the call
StillAtSource(p) == p \in DOMAIN fs /\ fs[p] = fs0[p]

\* p, or a directory above it, was renamed to a path of the destination tree
RenamedIntoDest(p) ==
    \E e \in log : /\ e[1] = "rename"
                   /\ IsPrefix(e[2], p)
                   /\ IsPrefix(call.toDir, e[3])

\* p was compared content-identical to a file of the destination tree
FoundIdentical(p) ==
    \E e \in log : e[1] = "same" /\ e[2] = p /\ IsPrefix(call.toDir, e[3])

\* C1: when moveElementsAcrossDir ends, returning or raising, every file that
\* was under sourceDir is still at its source path, unless it was renamed
\* into the destination tree or found content-identical to a destination file.
C1_SourceFileAccounted ==
    MergeEnded =>
        \A p \in FilesUnder(fs0, call.fromDir) :
            StillAtSource(p) \/ RenamedIntoDest(p) \/ FoundIdentical(p)

\* the action of the policy for a source file, and what a policy that knew
\* the file's own name would look up
ActionOf(p) == getActionForPath(call.options, p)

\* the numbered candidates stem.2.ext, stem.3.ext, ... a file of the source
\* can get in the directory of q, as far as that directory has entries
VariantsIn(f, p, q) ==
    {Candidate(p, q, n) : n \in 2..(Cardinality(readDir(f, Parent(q))) + 1)}

\* C2: a file directly in sourceDir whose action is Skip and whose name is
\* taken by a file of destDir is, when the call ends, still at its path with
\* its contents, and the destination file is unchanged.
C2_SkipLeavesBoth ==
    MergeEnded =>
        \A p \in FilesUnder(fs0, call.fromDir) :
            (Parent(p) = call.fromDir /\ ActionOf(p) = Skip
                /\ isFile(fs0, Counterpart(p))) =>
                /\ StillAtSource(p)
                /\ isFile(fs, Counterpart(p))
                /\ fs[Counterpart(p)] = fs0[Counterpart(p)]

\* C3: a CheckReplace source file that collides with a destination file of
\* other contents is, after a merge on which the OS refused nothing and the
\* cap on candidates was not hit, gone from the source; the destination file is unchanged and a numbered variant in
\* its directory holds the incoming contents.
C3_DifferingKeptBoth ==
    (MergeEnded /\ denied = {} /\ error # "tooMany") =>
        \A p \in FilesUnder(fs0, call.fromDir) :
            LET q == Counterpart(p)
            IN  (ActionOf(p) = CheckReplace /\ isFile(fs0, q)
                   /\ fs0[q].data # fs0[p].data) =>
                    /\ isFile(fs, q) /\ fs[q] = fs0[q]
                    /\ p \notin DOMAIN fs
                    /\ \E c \in VariantsIn(fs, p, q) :
                          isFile(fs, c) /\ fs[c].data = fs0[p].data

\* the CheckReplace source files that collide with an identical destination file
IdenticalCollisions ==
    {p \in FilesUnder(fs0, call.fromDir) :
        /\ ActionOf(p) = CheckReplace
        /\ isFile(fs0, Counterpart(p))
        /\ fs0[Counterpart(p)].data = fs0[p].data}

\* C4: a CheckReplace source file that collides with a byte-identical
\* destination file is, after a merge on which the OS refused nothing, gone
\* from the source; the destination name holds that content, and no numbered
\* variant of the name has appeared (each one present was there before or is
\* a source file of that very name).
C4_IdenticalCollapses ==
    (MergeEnded /\ denied = {}) =>
        \A p \in IdenticalCollisions :
            LET q == Counterpart(p)
            IN  /\ p \notin DOMAIN fs
                /\ isFile(fs, q) /\ fs[q].data = fs0[p].data
                /\ \A c \in VariantsIn(fs, p, q) :
                      c \in DOMAIN fs =>
                          \/ c \in DOMAIN fs0
                          \/ Child(Parent(p), BaseName(c)) \in DOMAIN fs0

\* C4 happens: a merge returned after it found a CheckReplace file identical
\* to its destination and renamed it over that file
C4_Witness ==
    /\ MergeEnded /\ denied = {} /\ result = "returned"
    /\ \E p \in IdenticalCollisions :
          /\ <<"same", p, Counterpart(p)>> \in log
          /\ <<"rename", p, Counterpart(p)>> \in log

\* the first RenameCap candidate names of p are taken, by files of other contents
CapReached(p) ==
    /\ Cardinality(DOMAIN fs0) > RenameCap
    /\ \A i \in 1..RenameCap :
          LET c == Candidate(p, Counterpart(p), i)
          IN  isFile(fs0, c) /\ fs0[c].data # fs0[p].data

\* C5: when the RenameCap candidate names stem.ext ... stem.1000.ext are all
\* taken by files of other contents, the merge of that file ends with the
\* 'too many duplicate files' error; the source file stays and the
\* destination directory gets no new file.
C5_CapRaises ==
    (MergeEnded /\ isFile(fs0, Child(call.fromDir, aTxt))
        /\ CapReached(Child(call.fromDir, aTxt))) =>
        /\ result = "raised" /\ error = "tooMany"
        /\ StillAtSource(Child(call.fromDir, aTxt))
        /\ Under(fs, call.toDir) = Under(fs0, call.toDir)

\* C6: when the rename of a file fails during a merge, the call still ends
\* by returning.
C6_FileFailureIsLocal ==
    (MergeEnded /\ \E e \in log : e[1] = "renameFailed" /\ isFile(fs0, e[2])) =>
        result = "returned"

\* C7: a call whose source is missing, equals the destination or is no
\* directory never changes the filesystem and never raises; once past its
\* entry it has returned.
C7_NoOpCalls ==
    (/\ cmd.kind = "merge"
     /\ \/ call.fromDir \notin DOMAIN fs0
        \/ call.fromDir = call.toDir
        \/ ~fs0[call.fromDir].dir) =>
        /\ fs = fs0
        /\ log = {}
        /\ outcome # "raised" /\ result # "raised"
        /\ pc # "entry" => outcome = "returned"

\* C7 happens: a merge of a populated directory into itself has returned
C7_Witness ==
    /\ MergeEnded /\ result = "returned"
    /\ call.fromDir = call.toDir
    /\ FilesUnder(fs0, call.fromDir) # {}

\* C8: with a source directory and a missing destination, on a run on which
\* the OS refused nothing, the call returns after exactly one rename: the
\* tree that was at the source is at the destination, path for path, the
\* source is gone and every other path is as before.
C8_WholeTreeRename ==
    (/\ MergeEnded /\ denied = {}
     /\ isDirectory(fs0, call.fromDir)
     /\ call.fromDir # call.toDir
     /\ call.toDir \notin DOMAIN fs0) =>
        /\ result = "returned"
        /\ log = {<<"rename", call.fromDir, call.toDir>>}
        /\ \A p \in Under(fs0, call.fromDir) :
              Counterpart(p) \in DOMAIN fs /\ fs[Counterpart(p)] = fs0[p]
        /\ Cardinality(Under(fs, call.toDir)) = Cardinality(Under(fs0, call.fromDir))
        /\ Under(fs, call.fromDir) = {}
        /\ \A p \in DOMAIN fs0 \ Under(fs0, call.fromDir) : StillAtSource(p)
        /\ DOMAIN fs \subseteq (DOMAIN fs0 \cup Under(fs, call.toDir))

\* C8 happens: a source tree with a file in a sub-directory was renamed to a
\* destination that did not exist
C8_Witness ==
    /\ MergeEnded /\ result = "returned"
    /\ call.toDir \notin DOMAIN fs0
    /\ \E p \in FilesUnder(fs0, call.fromDir) :
          Len(p) = Len(call.fromDir) + 2 /\ isFile(fs, Counterpart(p))

\* C9: with a source directory and a destination that exists and is no
\* directory, the call raises, and the filesystem is never changed.
C9_DestNotDirectoryRaises ==
    (/\ cmd.kind = "merge"
     /\ isDirectory(fs0, call.fromDir)
     /\ call.fromDir # call.toDir
     /\ isFile(fs0, call.toDir)) =>
        /\ fs = fs0
        /\ pc # "entry" => (outcome = "raised" /\ error = "notDirectory")
        /\ result # "returned"

\* C9 happens: the merge of a populated directory into a file has raised
C9_Witness ==
    /\ MergeEnded /\ result = "raised"
    /\ isFile(fs0, call.toDir)
    /\ FilesUnder(fs0, call.fromDir) # {}

----------------------------------------------------------------------------
(* Properties of the rename-by-metadata commands                           *)

\* C10: setNameByBms and setNameByBmsOptimized run with dryRun = true never
\* change the filesystem.
C10_DryRunMutatesNothing ==
    (cmd.kind \in {"setNameByBms", "setNameByBmsOptimized"} /\ cmd.dryRun) => fs = fs0

----------------------------------------------------------------------------
(* Properties of syncFolder                                                *)

\* C11: a sync whose preset has exec None and both cleanup flags off never
\* changes the filesystem.
C11_DetectionOnly ==
    (/\ cmd.kind = "sync"
     /\ sync.preset.exec = None
     /\ ~sync.preset.cleanup.removeDstExtra
     /\ ~sync.preset.cleanup.removeSrcSame) => fs = fs0

\* the destination path of a path of the source tree of the sync, and back
SyncCounterpart(p) == sync.dstDir \o SubSeq(p, Len(sync.srcDir) + 1, Len(p))
SyncSource(q) == sync.srcDir \o SubSeq(q, Len(sync.dstDir) + 1, Len(q))

\* the paths below the directory d, d itself left out
Below(f, d) == Under(f, d) \ {d}

\* a run of syncFolder with the preset has returned normally
SyncReturned(preset) ==
    cmd.kind = "sync" /\ sync.preset = preset /\ result = "returned"

\* the source tree is what it was when the run began
SourceUnchanged ==
    /\ Under(fs, sync.srcDir) = Under(sync.start, sync.srcDir)
    /\ \A p \in Under(sync.start, sync.srcDir) : fs[p] = sync.start[p]

\* every directory below the source exists below the destination
SubDirsMirrored ==
    \A p \in Below(sync.start, sync.srcDir) :
        sync.start[p].dir => isDirectory(fs, SyncCounterpart(p))

\* no entry below the destination lacks its source entry
NoDstExtra ==
    \A q \in Below(fs, sync.dstDir) : exists(fs, SyncSource(q))

\* the destination file q is the one the run found, and it has the size and
\* the modification time of the source file p
KeptAsSameMeta(p, q) ==
    /\ isFile(sync.start, q)
    /\ fs[q] = sync.start[q]
    /\ fileSize(sync.start[q].data) = fileSize(sync.start[p].data)
    /\ sync.start[q].mtime = sync.start[p].mtime

\* C12 (as the code has it): after syncFolder with presetDefault returns
\* normally, every source file has a destination file at the same relative
\* path that either has the source's content or is the file found there with
\* the source's size and modification time; every source sub-directory exists
\* below the destination, the destination has no entry without a source
\* entry, and the source is unchanged.
C12_MirrorByMeta ==
    SyncReturned(presetDefault) =>
        /\ \A p \in FilesUnder(sync.start, sync.srcDir) :
              LET q == SyncCounterpart(p)
              IN  /\ isFile(fs, q)
                  /\ fs[q].data = sync.start[p].data \/ KeptAsSameMeta(p, q)
        /\ SubDirsMirrored
        /\ NoDstExtra
        /\ SourceUnchanged

\* a mirror run returned after copying a file, creating a sub-directory and
\* deleting a destination entry, and kept a file it judged same
C12_Witness ==
    /\ SyncReturned(presetDefault)
    /\ sync.run = 1
    /\ \E e \in log : e[1] = "copy"
    /\ \E e \in log : e[1] = "mkdir"
    /\ \E e \in log : e[1] = "removeDst"
    /\ \E e \in log : e[1] = "compared" /\ e[4]

\* C12 (as stated): after syncFolder with presetDefault returns normally,
\* every source file exists below the destination with the same content,
\* every source sub-directory exists there, the destination has no entry
\* without a source entry, and the source is unchanged.
C12_MirrorSameContent ==
    SyncReturned(presetDefault) =>
        /\ \A p \in FilesUnder(sync.start, sync.srcDir) :
              /\ isFile(fs, SyncCounterpart(p))
              /\ fs[SyncCounterpart(p)].data = sync.start[p].data
        /\ SubDirsMirrored
        /\ NoDstExtra
        /\ SourceUnchanged

\* the source file p has propagated in f: a file of the same name, size and
\* digest is at the destination
Propagated(f, p) ==
    LET q == SyncCounterpart(p)
    IN  /\ isFile(f, q)
        /\ fileSize(f[q].data) = fileSize(f[p].data)
        /\ calculateFileHash(f, q) = calculateFileHash(f, p)

\* the events of pass run that copy, move or delete
Transfers(run) ==
    {e \in log : e[2] = run /\ e[1] \in {"copy", "move", "removeSrc", "removeDst"}}

\* C13: with presetForAppend, after a first run returned normally every
\* source file that had propagated is gone from the source, and a second run
\* on the trees the first one left copies, moves and deletes nothing.
C13_AppendDrains ==
    (cmd.kind = "sync" /\ sync.preset = presetForAppend) =>
        /\ (sync.run = 1 /\ result = "returned") =>
              \A p \in FilesUnder(fs0, sync.srcDir) : Propagated(fs0, p) => ~exists(fs, p)
        /\ sync.run = 2 => fs = sync.start /\ Transfers(2) = {}

\* the first run drained a propagated file and left another one, the second
\* run looked at the one left and returned
C13_Witness ==
    /\ SyncReturned(presetForAppend)
    /\ sync.run = 2
    /\ \E p \in FilesUnder(fs0, sync.srcDir) : Propagated(fs0, p) /\ ~exists(fs, p)
    /\ \E e \in log : e[1] = "compared" /\ e[2] = 2 /\ ~e[4]

\* the running pass looked at the source file p (it was eligible), copied or
\* moved it, deleted it, deleted the destination entry q
Processed(p) ==
    \E e \in log : e[1] \in {"compared", "absent"} /\ e[2] = sync.run /\ e[3] = p
Transferred(p) ==
    \E e \in log : e[1] \in {"copy", "move"} /\ e[2] = sync.run /\ e[3] = p
SrcRemoved(p) == <<"removeSrc", sync.run, p>> \in log
DstRemoved(q) == <<"removeDst", sync.run, q>> \in log

\* the files p and q of the tree f are the same by the comparisons the
\* preset switches on: size, modification time, size and then digest
SameByPreset(f, preset, p, q) ==
    /\ preset.fileCompare.checkSize => fileSize(f[p].data) = fileSize(f[q].data)
    /\ preset.fileCompare.checkMtime => f[p].mtime = f[q].mtime
    /\ preset.fileCompare.checkSha512 =>
          /\ fileSize(f[p].data) = fileSize(f[q].data)
          /\ f[p].data = f[q].data

\* C14: when a run has returned, each source file it found eligible was
\* copied or moved onto its name in the destination exactly when the
\* destination file was absent or judged different (with exec Copy or Move),
\* and was deleted from the source exactly when removeSrcSame is set and the
\* destination file was present and judged same; otherwise both are as they
\* were.
C14_PerFileMachine ==
    (cmd.kind = "sync" /\ result = "returned") =>
        \A p \in FilesUnder(sync.start, sync.srcDir) :
            Processed(p) =>
                LET q == SyncCounterpart(p)
                    present == exists(sync.start, q)
                    same == present /\ SameByPreset(sync.start, sync.preset, p, q)
                    T == Transferred(p)
                    R == SrcRemoved(p)
                IN  /\ T <=> (sync.preset.exec # None /\ (~present \/ ~same))
                    /\ R <=> (sync.preset.cleanup.removeSrcSame /\ present /\ same)
                    /\ T => \/ DstRemoved(q)
                            \/ isFile(fs, q) /\ fs[q].data = sync.start[p].data
                    /\ (T /\ sync.preset.exec = Copy) => exists(fs, p) /\ fs[p] = sync.start[p]
                    /\ (T /\ sync.preset.exec = Move) => ~exists(fs, p)
                    /\ R => ~exists(fs, p)
                    /\ (~T /\ ~R) =>
                          /\ exists(fs, p) /\ fs[p] = sync.start[p]
                          /\ IF present THEN exists(fs, q) /\ fs[q] = sync.start[q]
                             ELSE ~exists(fs, q)

\* a run returned after overwriting a destination file judged different
\* and deleting a source file judged same
C14_Witness ==
    /\ cmd.kind = "sync" /\ result = "returned"
    /\ \E p \in FilesUnder(sync.start, sync.srcDir) :
          Transferred(p) /\ exists(sync.start, SyncCounterpart(p))
    /\ \E p \in FilesUnder(sync.start, sync.srcDir) : SrcRemoved(p)

\* the extension passes the lists of the preset
ExtEligible(preset, ext) ==
    /\ ext \notin preset.disallowSrcExts
    /\ ext \in preset.allowSrcExts \/ preset.allowOtherExts

\* in the tree f a bound file of the source file p is at the destination:
\* p's stem with a target extension of a pair that lists p's extension
BoundIn(f, preset, p) ==
    \E pair \in preset.noActivateExtBoundPairs :
        /\ getFileExtension(BaseName(p)) \in pair[1]
        /\ \E toExt \in pair[2] :
              exists(f, Child(Parent(SyncCounterpart(p)),
                              getFileStem(BaseName(p)) \o <<".">> \o toExt))

\* the running pass did nothing to the source file p and its destination
Untouched(p) ==
    /\ ~Processed(p) /\ ~Transferred(p) /\ ~SrcRemoved(p)
    /\ \A e \in log : (e[1] = "digest" /\ e[2] = sync.run) =>
                          e[3] \notin {p, SyncCounterpart(p)}
    /\ exists(fs, p) /\ fs[p] = sync.start[p]
    /\ IF exists(sync.start, SyncCounterpart(p))
       THEN /\ exists(fs, SyncCounterpart(p))
            /\ fs[SyncCounterpart(p)] = sync.start[SyncCounterpart(p)]
       ELSE ~exists(fs, SyncCounterpart(p))

\* C15: a source file whose extension does not pass the lists, or that has a
\* bound file at the destination, is never copied, moved, compared or
\* deleted and its destination file stays as it is; when the run has
\* returned, a file was handled only if it passed the lists with no bound
\* file, and every such file with no bound file at the end either was
\* handled.
C15_Eligibility ==
    cmd.kind = "sync" =>
        \A p \in FilesUnder(sync.start, sync.srcDir) :
            LET ext == getFileExtension(BaseName(p))
                passes == ExtEligible(sync.preset, ext)
            IN  /\ (~passes \/ BoundIn(sync.start, sync.preset, p)) => Untouched(p)
                /\ result = "returned" =>
                      ((passes /\ ~BoundIn(sync.start, sync.preset, p)
                               /\ ~BoundIn(fs, sync.preset, p)) => Processed(p))

\* a run returned that passed over a file of a disallowed extension whose
\* destination file differs, and over a file with a bound file
C15_Witness ==
    /\ cmd.kind = "sync" /\ result = "returned"
    /\ \E p \in FilesUnder(sync.start, sync.srcDir) :
          /\ ~ExtEligible(sync.preset, getFileExtension(BaseName(p)))
          /\ exists(sync.start, SyncCounterpart(p))
          /\ sync.start[SyncCounterpart(p)].data # sync.start[p].data
    /\ \E p \in FilesUnder(sync.start, sync.srcDir) :
          /\ ExtEligible(sync.preset, getFileExtension(BaseName(p)))
          /\ BoundIn(sync.start, sync.preset, p)

\* C16: when a run with removeDstExtra has returned, every entry the
\* destination had without a source entry is gone, and no destination entry
\* that corresponds to a source entry of the run was deleted.
C16_RemovesExactlyExtras ==
    (cmd.kind = "sync" /\ sync.preset.cleanup.removeDstExtra /\ result = "returned") =>
        /\ \A q \in Below(sync.start, sync.dstDir) :
              ~exists(sync.start, SyncSource(q)) => ~exists(fs, q)
        /\ \A p \in Below(sync.start, sync.srcDir) :
              \A e \in log : (e[1] = "removeDst" /\ e[2] = sync.run) =>
                                 ~IsPrefix(e[3], SyncCounterpart(p))

----------------------------------------------------------------------------
(* Properties of the comparison helpers                                    *)

\* the file the sync compares the file x with
Partner(x) == IF IsPrefix(sync.srcDir, x) THEN SyncCounterpart(x) ELSE SyncSource(x)

\* a digest was computed for the file x in the running pass
Hashed(x) == <<"digest", sync.run, x>> \in log

\* C17: for two files, isFileSameContent is false and computes no digest
\* when the sizes differ, is true exactly when the two digests are equal
\* when the sizes are equal, and is true when the contents are identical;
\* syncFolder computed digests only for pairs of equal size.
C17_SizeThenDigest ==
    cmd.kind = "sync" =>
        /\ \A p \in FilesUnder(fs, sync.srcDir), q \in FilesUnder(fs, sync.dstDir) :
              /\ fileSize(fs[p].data) # fileSize(fs[q].data) =>
                    ~isFileSameContent(fs, p, q) /\ digestsComputed(fs, p, q) = {}
              /\ fileSize(fs[p].data) = fileSize(fs[q].data) =>
                    /\ isFileSameContent(fs, p, q) <=>
                          calculateFileHash(fs, p) = calculateFileHash(fs, q)
                    /\ digestsComputed(fs, p, q) = {p, q}
              /\ fs[p].data = fs[q].data => isFileSameContent(fs, p, q)
        /\ \A x \in DOMAIN sync.start :
              Hashed(x) =>
                  /\ isFile(sync.start, x) /\ isFile(sync.start, Partner(x))
                  /\ fileSize(sync.start[x].data) = fileSize(sync.start[Partner(x)].data)

\* a run compared a pair of equal size by digest and found it different,
\* and compared a pair of different sizes
C17_Witness ==
    /\ cmd.kind = "sync" /\ sync.preset.fileCompare.checkSha512
    /\ \E p \in FilesUnder(sync.start, sync.srcDir) :
          /\ Hashed(p) /\ Hashed(SyncCounterpart(p))
          /\ <<"compared", sync.run, p, FALSE>> \in log
    /\ \E p \in FilesUnder(sync.start, sync.srcDir) :
          /\ Processed(p) /\ ~Hashed(p)
          /\ isFile(sync.start, SyncCounterpart(p))
          /\ fileSize(sync.start[p].data) # fileSize(sync.start[SyncCounterpart(p)].data)

----------------------------------------------------------------------------
(* Properties of the similarity gate                                       *)

\* the commands that rename a work directory by its chart
RenameCommands == {"setNameByBms", "setNameByBmsOptimized", "processBmsInfo"}

\* stems(D) of the claim: the stems of the non-directory entries of D whose
\* extension is a media extension
FileMediaStems(f, dir) ==
    IF ~isDirectory(f, dir) THEN {}
    ELSE {getFileStem(n) : n \in {m \in readDir(f, dir) :
                                     /\ ~f[Child(dir, m)].dir
                                     /\ getFileExtension(m) \in MEDIA_EXT_LIST}}

\* 0 when a side has no stem, else the common stems over the smaller side
StemOverlap(f, dirA, dirB) ==
    LET a == FileMediaStems(f, dirA)
        b == FileMediaStems(f, dirB)
    IN  IF a = {} \/ b = {} THEN <<0, 1>>
        ELSE <<Cardinality(a \cap b),
               IF Cardinality(a) < Cardinality(b) THEN Cardinality(a) ELSE Cardinality(b)>>

\* two fractions are the same number
SameFraction(x, y) == x[1] * y[2] = y[1] * x[2]

\* the directories of the tree
Dirs(f) == {p \in DOMAIN f : f[p].dir}

\* the rename command has just taken its decision on the similarity sim of
\* workDir and the target: the tree is the one the similarity was computed on
JustDecided(sim, target) ==
    /\ <<"targetExists", target>> \in log
    /\ \/ <<"mergeCanceled", sim>> \in log /\ cpc = "done"
       \/ <<"mergeStart", sim>> \in log /\ cpc = "merging" /\ pc = "entry"

\* C18: bmsDirSimilarity(A, B) is 0 when a directory has no media stem and
\* else the number of common stems over the smaller number of stems, the
\* stems being those of the non-directory entries with a media extension;
\* bmsDirSimilarity(A, A) is 1 when A has a media file; a rename command
\* that has looked its directories up decided on that value.
C18_SimilarityByFileStems ==
    (cmd.kind \in RenameCommands /\ cpc # "lookup") =>
        /\ \A a \in Dirs(fs), b \in Dirs(fs) :
              SameFraction(bmsDirSimilarity(fs, a, b), StemOverlap(fs, a, b))
        /\ \A a \in Dirs(fs) :
              FileMediaStems(fs, a) # {} => SameFraction(bmsDirSimilarity(fs, a, a), <<1, 1>>)
        /\ \A e \in log, t \in Dirs(fs) :
              (e[1] \in {"mergeCanceled", "mergeStart"} /\ JustDecided(e[2], t)) =>
                  SameFraction(e[2], StemOverlap(fs, cmd.workDir, t))

\* the fraction is at least 0.8
AtLeastFourFifths(x) == 10 * x[1] >= 8 * x[2]

\* the step is the decision of a rename command that found the directory t
\* at the name it wants to give workDir
DecidesOnExisting(t) ==
    /\ cmd.kind \in RenameCommands
    /\ cpc = "lookup"
    /\ <<"targetExists", t>> \in log' \ log

----------------------------------------------------------------------------
(* Properties of the replacement presets                                   *)

\* C20: when a merge with the options of ReplacePreset.Default between two
\* separate trees, with no operation refused, has ended, every file the
\* destination tree had is still there with its content.
C20_DefaultKeepsExisting ==
    (/\ MergeEnded
     /\ denied = {}
     /\ call.options = replaceOptionsFromPreset("Default")
     /\ ~IsPrefix(call.fromDir, call.toDir)
     /\ ~IsPrefix(call.toDir, call.fromDir)) =>
        \A q \in FilesUnder(fs0, call.toDir) : exists(fs, q) /\ fs[q] = fs0[q]

----------------------------------------------------------------------------
(* Termination                                                             *)

\* C21: every call ends, returning or raising, with no operation left in
\* flight and the worklist empty when it returned normally; a rename loop
\* never tries more than RenameCap + 1 candidates.
C21_Terminates ==
    /\ [](\A t \in tasks : t.count <= RenameCap + 1)
    /\ <>[](/\ result # "running"
            /\ tasks = {}
            /\ (outcome = "returned" => queue = <<>>))

\* a merge ended normally after its worklist held a deferred pair and a
\* rename loop went past its first candidate
C21_Witness ==
    /\ MergeEnded /\ result = "returned" /\ tasks = {} /\ queue = <<>>
    /\ \E e \in log : e[1] = "processed" /\ e[2] # call.fromDir
    /\ \E e \in log : e[1] = "rename" /\ BaseName(e[2]) # BaseName(e[3])

----------------------------------------------------------------------------
(* Properties of the worklist order                                        *)

\* the pair last taken from the worklist has just been taken: processDirectory
\* is at its first stage, or its readDir has rejected
JustTaken ==
    /\ cmd.kind = "merge"
    /\ pc = "stage2a" \/ (pc = "end" /\ error = "readDir")

\* C22: when a pair is taken from the worklist, the cleanup step has removed
\* neither its source directory nor an ancestor of it.
C22_TakenBeforeCleanup ==
    JustTaken => \A e \in log : e[1] = "remove" => ~IsPrefix(e[2], cur.from)

----------------------------------------------------------------------------
(* Properties of the concurrent stages                                     *)

\* the stage of processDirectory that handles the source file
StageOf(src) ==
    LET action == getActionForPath(call.options, src)
    IN  CASE action = Skip -> "2b"
          [] action = Rename -> "2c"
          [] OTHER -> "3"

\* two files of one directory that processDirectory handles in one stage
Siblings(p, q) ==
    /\ p # q
    /\ exists(fs0, p) /\ isFile(fs0, p)
    /\ exists(fs0, q) /\ isFile(fs0, q)
    /\ Parent(p) = Parent(q)
    /\ StageOf(p) = StageOf(q)

\* C23: no two file operations of one directory level and one stage have
\* moved their source files to the same destination path.
C23_DisjointDestinations ==
    cmd.kind = "merge" =>
        \A e1, e2 \in log :
            (e1[1] = "rename" /\ e2[1] = "rename" /\ Siblings(e1[2], e2[2]))
                => e1[3] # e2[3]

----------------------------------------------------------------------------
(* Properties of the cleanup step                                          *)

\* the step is the cleanup of the directory just processed
CleanupStep == cmd.kind = "merge" /\ pc = "stage3" /\ tasks = {} /\ pc' = "loop"

\* C24: under the default Skip, the cleanup of a source directory that still
\* holds a file, directly or in a sub-directory, leaves the directory and
\* these files in place.
C24_SkipKeepsUnmigrated ==
    [][(CleanupStep /\ call.options.default = Skip /\ FilesUnder(fs, cur.from) # {})
          => fs' = fs]_vars

----------------------------------------------------------------------------
(* Properties of the comparison of syncFolder                              *)

\* C25: a present destination file was judged same exactly when every
\* check that is switched on among size, modification time and digest
\* matched; a digest was computed only with the digest check switched on and
\* the checks of size and modification time, where switched on, matched;
\* with no check switched on every present destination file was judged same.
C25_ChecksInOrder ==
    cmd.kind = "sync" =>
        \A e \in log :
            (e[1] = "compared" /\ e[2] = sync.run) =>
                LET p == e[3]
                    q == SyncCounterpart(p)
                    c == sync.preset.fileCompare
                    sizeOk == fileSize(sync.start[p].data) = fileSize(sync.start[q].data)
                    mtimeOk == sync.start[p].mtime = sync.start[q].mtime
                    hashOk == calculateFileHash(sync.start, p) = calculateFileHash(sync.start, q)
                IN  /\ e[4] <=> /\ c.checkSize => sizeOk
                                /\ c.checkMtime => mtimeOk
                                /\ c.checkSha512 => hashOk
                    /\ (Hashed(p) \/ Hashed(q)) =>
                          /\ c.checkSha512
                          /\ c.checkSize => sizeOk
                          /\ c.checkMtime => mtimeOk
                    /\ (~c.checkSize /\ ~c.checkMtime /\ ~c.checkSha512) => e[4]

\* a pass with all three checks found a destination file of the same size
\* and another time different without computing a digest, and judged
\* another destination file same after computing the digests
C25_Witness ==
    /\ cmd.kind = "sync"
    /\ sync.preset.fileCompare = FileCompareStrategy(TRUE, TRUE, TRUE)
    /\ \E e \in log :
          /\ e[1] = "compared" /\ e[2] = sync.run
          /\ LET p == e[3]
                 q == SyncCounterpart(p)
             IN  /\ fileSize(sync.start[p].data) = fileSize(sync.start[q].data)
                 /\ sync.start[p].mtime # sync.start[q].mtime
                 /\ ~e[4] /\ ~Hashed(p) /\ ~Hashed(q)
    /\ \E e \in log : e[1] = "compared" /\ e[2] = sync.run /\ e[4] /\ Hashed(e[3])

----------------------------------------------------------------------------
(* Properties of a failing cleanup                                         *)

\* the cleanup could not delete the source directory d
CleanupFailed(d) == <<"removeFailed", d>> \in log /\ isDirectory(fs0, d)

\* C26: a cleanup that cannot delete its source directory does not end the
\* call: the loop goes on with the worklist, and a call in which a cleanup
\* failed has returned normally with every pair of the worklist processed.
C26_CleanupFailureCaught ==
    /\ (cmd.kind = "merge" /\ pc = "loop" /\ CleanupFailed(cur.from)) => outcome = "running"
    /\ (MergeEnded /\ \E d \in DOMAIN fs0 : CleanupFailed(d)) =>
          /\ result = "returned"
          /\ queue = <<>>
          /\ \A d \in DOMAIN fs0 :
                (isDirectory(fs0, d) /\ IsPrefix(call.fromDir, d)
                   /\ isDirectory(fs0, call.toDir \o SubSeq(d, Len(call.fromDir) + 1, Len(d))))
                   => \E e \in log : e[1] = "processed" /\ e[2] = d

\* a call returned after the cleanup of the source root and of a sub-directory
\* both failed
C26_Witness ==
    /\ MergeEnded /\ result = "returned"
    /\ CleanupFailed(call.fromDir)
    /\ \E d \in DOMAIN fs0 : d # call.fromDir /\ CleanupFailed(d)
    /\ \E e \in log : e[1] = "rename" /\ Len(e[2]) = Len(call.fromDir) + 2

----------------------------------------------------------------------------
(* Properties of syncFolder: the source files                              *)

\* C27: when a pass of syncFolder has returned, every file the source tree
\* held at its start is, with the same contents, at its source path or at
\* the same relative path in the destination tree.
C27_NoSourceLost ==
    (cmd.kind = "sync" /\ result = "returned") =>
        \A p \in FilesUnder(sync.start, sync.srcDir) :
            LET q == SyncCounterpart(p)
            IN  \/ isFile(fs, p) /\ fs[p].data = sync.start[p].data
                \/ isFile(fs, q) /\ fs[q].data = sync.start[p].data

----------------------------------------------------------------------------
(* Properties of the policies without Replace                              *)

\* no action of the policy is Replace
NoReplace(options) ==
    /\ options.default # Replace
    /\ \A i \in 1..Len(options.ext) : options.ext[i][2] # Replace

\* C28: under a policy with no Replace action, every file the destination
\* tree held before the call stays at its path with its contents.
C28_DestinationKept ==
    (cmd.kind = "merge" /\ NoReplace(call.options)) =>
        \A q \in FilesUnder(fs0, call.toDir) :
            isFile(fs, q) /\ fs[q].data = fs0[q].data

\* a call under such a policy has returned after it met a destination file
\* of other contents, which it passed by a numbered name, and one of the same
\* contents
C28_Witness ==
    /\ MergeEnded /\ result = "returned" /\ NoReplace(call.options)
    /\ \E e \in log : /\ e[1] = "rename" /\ BaseName(e[2]) # BaseName(e[3])
                      /\ exists(fs0, Child(call.toDir, BaseName(e[2])))
    /\ \E e \in log : e[1] = "same"

----------------------------------------------------------------------------
(* Properties of the ConcurrencyPool                                       *)

\* the tasks that were started and whose promise has not settled
Unsettled == {i \in Adds : pool.at[i] \in {"task", "done"} /\ pool.settled[i] = "pending"}

\* C29: the tasks started and not yet settled are never more than the
\* concurrency of the pool, and neither are the promises in running.
C29_AtMostConcurrency ==
    PoolActive =>
        /\ Cardinality(Unsettled) <= pool.concurrency
        /\ Cardinality(pool.running) <= pool.concurrency

\* every add() was called without awaiting; as many tasks as the pool allows
\* are unsettled, a call awaits a race, and a call has thrown
C29_Witness ==
    /\ PoolActive
    /\ pool.calls = MaxAdds
    /\ Cardinality(Unsettled) = pool.concurrency
    /\ \E i \in Adds : pool.at[i] = "race"
    /\ \E i \in Adds : pool.at[i] = "done" /\ pool.settled[i] = "rejected"

----------------------------------------------------------------------------
(* Properties of the candidate names                                       *)

\* C30: a file that the collision-avoiding rename moved, and whose own name
\* was free in the destination directory when the call began, is in the
\* destination under exactly the name it had in the source.
C30_OwnNameKept ==
    cmd.kind = "merge" =>
        \A e \in log :
            (/\ e[1] = "rename"
             /\ exists(fs0, e[2]) /\ isFile(fs0, e[2])
             /\ StageOf(e[2]) = "2c"
             /\ ~exists(fs0, Child(Parent(e[3]), BaseName(e[2]))))
                => BaseName(e[3]) = BaseName(e[2])

====
